---- MODULE Spec2Model ----
(***************************************************************************)
(* ContractIQ: document ingest / deletion, the Redis cache façade, the    *)
(* vector-search cache, the RAG generate node and the conversation log,   *)
(* modelled from backend/src.                                              *)
(*                                                                         *)
(* Specifications:                                                         *)
(*   Spec      - upload, background processing, deletion, search and       *)
(*               list_documents interleaved step by step (documents.py,   *)
(*               vector_store.py, cache.py)                                *)
(*   SpecSeq   - the same steps with one operation in flight at a time     *)
(*   SpecCache - the CacheService operations against a store that may be   *)
(*               disabled or fail on any call (cache.py)                   *)
(*   SpecText  - the retrieve and generate nodes over every short answer   *)
(*               text the model can return (rag_pipeline.py)               *)
(*   SpecCite  - the retrieve and generate nodes over every short          *)
(*               cited_sources list and every similarity profile           *)
(*   SpecAsk   - ask_question calls on one conversation, one at a time     *)
(*               (conversations.py)                                        *)
(*   SpecAsk2  - ask_question calls on one conversation, interleaved       *)
(*   SpecDedup - ClauseDeduplicator.deduplicate_clauses run twice over     *)
(*               every short clause list (clause_deduplicator.py)          *)
(*   SpecWs    - the workspace's requests one at a time, extract_clauses   *)
(*               and delete_workspace included (clauses.py, workspaces.py) *)
(*   SpecClause  - extract_clauses over every short clause the extractor   *)
(*               can return, on processed documents                        *)
(*   SpecExtract - extract_clauses and delete_document interleaved         *)
(*   SpecErr   - an exception raised in a route, answered by the handler   *)
(*               the application registers for it (main.py)                *)
(*   SpecPages - process_pdf's structuring and indexing of the pages of    *)
(*               one document (document_processor.py, vector_store.py)     *)
(*   SpecWorker - upload, the background task and deletion of a document,  *)
(*               the task's next step always eventually taken              *)
(*   SpecRetry - retry_with_backoff around a function that returns or      *)
(*               raises on each invocation (retry.py)                      *)
(*   SpecEmbed - get_embedding and get_embeddings_batch over what the      *)
(*               embeddings endpoint does (embedding_service.py)           *)
(*   SpecRetrieve - the retrieve and generate nodes over every question    *)
(*               and document_ids filter (rag_pipeline.py)                 *)
(*   SpecIndex - several documents processed and indexed into one          *)
(*               workspace collection (documents.py, vector_store.py)      *)
(*   SpecIsolation - two workspaces searched, indexed and invalidated      *)
(*               against the one cache (vector_store.py, cache.py)         *)
(*   SpecAuth  - requests by the owner, another user and an anonymous      *)
(*               caller to every mounted endpoint (api/*.py)               *)
(***************************************************************************)
EXTENDS Integers, Sequences, FiniteSets, TLC

VARIABLES
  \* ---- authoritative stores ----
  row,          \* documents table: d -> status, or NoRow
  file,         \* upload_dir: d -> TRUE iff {upload_dir}/{d}.{ext} exists
  vec,          \* workspace collection: set of documents with indexed entries
  \* ---- cache (Redis) ----
  cacheEnabled, \* CacheService.enabled
  cache,        \* Redis store: key -> None | Some(value)
  \* ---- operations in flight ----
  upc,          \* upload_document(d): position
  wpc,          \* process_document_background(d): position
  wChunks,      \* process_document_background(d): result["chunks"] non-empty
  dpc,          \* delete_document(d): position
  unflushed,    \* operations with an authoritative write not yet followed by their invalidation
  dRace,        \* documents whose delete_document committed while their worker was running
  spc, sFilter, sVal, sRes, sFromCache, sFresh, sAfterDelete,  \* VectorStore.search call
  lpc, lVal, lRes, lFromCache, lFresh,                         \* list_documents call
  \* ---- CacheService call trace (SpecCache) ----
  cOp, cRet, cRaised, cStoreDown, cBefore,
  \* ---- RAG pipeline state (ContractIQState) and the model's reply ----
  gpc,               \* position in the graph: "start" -> "retrieved" -> "generated"
  results,           \* what VectorStore.search returns for the question
  structured_answer, \* the StructuredAnswer the model returns when its call succeeds
  retrieved_chunks, answer, citations, error,
  question,          \* state["question"] of the run
  document_ids,      \* state["document_ids"] of the run: None, or Some(the ids listed)
  searchCalls,       \* VectorStore.search calls made by the run
  classifierCalls,   \* classification chat completions made by the run
  structuredCalls,   \* structured-output chat completions made by the run
  \* ---- conversation log ----
  messages,          \* messages table rows of the conversation, in commit order
  apc,               \* ask_question(a): position
  next_index,        \* ask_question(a): local next_index
  asks,              \* ask_question calls started so far
  \* ---- workspace, conversation and clause rows ----
  workspaceRow,      \* workspaces table: the row of Workspace exists
  conversationRow,   \* conversations table: the row of the conversation exists
  clauseRows,        \* clauses table: d -> the committed clause rows of d
  xpc,               \* delete_workspace: position
  epc,               \* extract_clauses(d): position
  eForce,            \* extract_clauses(d): request.force_re_extract
  eNew,              \* extract_clauses(d): clause rows added to the session, not committed
  eResp,             \* extract_clauses(d): the response (status code, clauses)
  eGen,              \* extract_clauses calls started so far
  eOld,              \* extract_clauses(d): the clause rows stored when the call loaded d
  eRace,             \* documents whose delete_document committed while extract_clauses ran on them
  \* ---- ClauseDeduplicator runs (SpecDedup) ----
  dedupIn,           \* the extracted clauses handed to the first run
  dedupDecisions,    \* ordered pairs of clauses the comparison call judges duplicates
  dedupOut1,         \* what the first run returned
  dedupOut2,         \* what the run on dedupOut1 returned
  dedupPc,           \* "start" -> "once" -> "twice"
  \* ---- error responses (SpecErr) ----
  errRaised,         \* the exception a request handler raised, or None
  errEnvironment,    \* settings.environment
  errResponse,       \* the response the application sent for it, or None
  \* ---- DocumentProcessor run on one file (SpecPages) ----
  page_text_map,     \* page number -> text extracted from the page
  structureReply,    \* what the structuring call returns: None when it raises, else Some(chunks)
  resultChunks,      \* result["chunks"] of process_pdf / process_docx
  entries,           \* the entries index_document_chunks added to the collection
  pagePc,            \* "start" -> "structured" -> "indexed"
  \* ---- retry_with_backoff wrapper call (SpecRetry, SpecEmbed) ----
  rtConfig,          \* the RetryConfig: max_retries, retryable_exceptions
  rtFunc,            \* the wrapped function
  rtAttempt,         \* the loop variable attempt
  rtRemote,          \* what each call of the remote endpoint did, in order
  rtInvocations,     \* what each invocation of the wrapped function did, in order
  rtSleeps,          \* time.sleep calls made
  rtPc,              \* "calling" | "sleeping" | "returned" | "raised"
  rtResult,          \* what the wrapper returned or raised, or None
  embResult,         \* what get_embedding / get_embeddings_batch returned or raised, or None
  \* ---- one workspace collection, several documents (SpecIndex) ----
  collection,        \* the entries of the workspace collection, keyed by id
  idxDocument,       \* the document being processed, or None
  idxAdded,          \* every chunk handed to collection.add: document, position, id
  idxDone,           \* the documents whose background task has finished
  \* ---- two workspaces, one cache (SpecIsolation) ----
  collections,       \* workspace -> the entries of its collection workspace_{id}
  sWorkspace,        \* workspace_id of the VectorStore.search call under way
  \* ---- requests by any caller (SpecAuth) ----
  authCaller,        \* who sent the last request: "anonymous" or a user
  authEndpoint,      \* the endpoint the last request went to
  authStatus,        \* the status code of its response
  conversationTitle  \* conversations table: the title of the conversation

docVars == <<row, file, vec, upc, wpc, wChunks, dpc, unflushed, dRace,
             spc, sFilter, sVal, sRes, sFromCache, sFresh, sAfterDelete,
             lpc, lVal, lRes, lFromCache, lFresh>>
cacheVars == <<cacheEnabled, cache>>
searchVars == <<spc, sFilter, sVal, sRes, sFromCache, sFresh, sAfterDelete>>
listVars == <<lpc, lVal, lRes, lFromCache, lFresh>>
callVars == <<cOp, cRet, cRaised, cStoreDown, cBefore>>
ragVars == <<gpc, results, structured_answer, retrieved_chunks, answer, citations, error,
             question, document_ids, searchCalls, classifierCalls, structuredCalls>>
askVars == <<messages, apc, next_index, asks>>
pipelineVars == <<ragVars, askVars>>
clauseVars == <<clauseRows, epc, eForce, eNew, eResp, eGen, eOld, eRace>>
wsVars == <<workspaceRow, conversationRow, xpc, clauseVars>>
dedupVars == <<dedupIn, dedupDecisions, dedupOut1, dedupOut2, dedupPc>>
errVars == <<errRaised, errEnvironment, errResponse>>
pageVars == <<page_text_map, structureReply, resultChunks, entries, pagePc>>
retryVars == <<rtConfig, rtFunc, rtAttempt, rtRemote, rtInvocations, rtSleeps, rtPc, rtResult, embResult>>
indexVars == <<collection, idxDocument, idxAdded, idxDone>>
isoVars == <<collections, sWorkspace>>
authVars == <<authCaller, authEndpoint, authStatus, conversationTitle>>
extVars == <<retryVars, indexVars, isoVars, authVars>>
unitVars == <<dedupVars, errVars, pageVars, extVars>>
vars == <<docVars, cacheVars, callVars, pipelineVars, wsVars, unitVars>>

(***************************************************************************)
(* Universe                                                                *)
(***************************************************************************)
Docs == {"d1"}
Workspace == "w1"
Statuses == {"Uploaded", "Processing", "Processed", "Failed"}
NoRow == "absent"

None == <<>>
Some(v) == <<v>>

\* DocumentStatus enum: member -> value, as model_dump(mode='json') writes it
DocumentStatusValue(s) == CASE s = "Uploaded" -> "uploaded"
                            [] s = "Processing" -> "processing"
                            [] s = "Processed" -> "processed"
                            [] s = "Failed" -> "failed"

\* DocumentResponse.model_validate on a cached dict: value -> enum member
DocumentStatusFromValue(v) == CHOOSE s \in Statuses : DocumentStatusValue(s) = v

(***************************************************************************)
(* Cache keys: ':'-separated segments, patterns with '*'                   *)
(***************************************************************************)
DocumentsKey(w) == <<"workspace", w, "documents">>
Filters == {"all"} \cup Docs
\* variant: the key leaves the workspace out
SearchKeyShared(w, f) == <<"vector_search", Workspace, f>>
\* vector_store.py 203-214: "vector_search", workspace_id and the hashes of the query
\* and of the filter
SearchKey(w, f) == <<"vector_search", w, f>>
EmbeddingKey == <<"embedding", "text-embedding-3-small", "h1">>
DocumentScopedKey(d, w) == <<"document", d, "workspace", w>>

Keys == {DocumentsKey(Workspace), EmbeddingKey}
        \cup {SearchKey(Workspace, f) : f \in Filters}
        \cup {DocumentScopedKey(d, Workspace) : d \in Docs}

RECURSIVE GlobMatch(_, _)
\* Redis KEYS glob on segment sequences: '*' stands for one or more segments
GlobMatch(p, k) == IF p = <<>> THEN k = <<>>
                   ELSE IF Head(p) = "*"
                        THEN \E i \in 1..Len(k) : GlobMatch(Tail(p), SubSeq(k, i + 1, Len(k)))
                        ELSE k # <<>> /\ Head(k) = Head(p) /\ GlobMatch(Tail(p), Tail(k))

\* CacheService.get: disabled or store error -> None
CacheGet(en, down, st, k) == IF en /\ ~down THEN st[k] ELSE None

\* CacheService.set: the store after the call
CacheSet(en, down, st, k, v) == IF en /\ ~down THEN [st EXCEPT ![k] = Some(v)] ELSE st

\* CacheService.set: return value
CacheSetRet(en, down) == en /\ ~down

\* CacheService.delete: the store after the call
CacheDelete(en, down, st, k) == IF en /\ ~down THEN [st EXCEPT ![k] = None] ELSE st

\* CacheService.delete: return value
CacheDeleteRet(en, down) == en /\ ~down

\* CacheService.delete_pattern: the store after the call
CacheDeletePattern(en, down, st, p) == IF en /\ ~down
                                       THEN [k \in DOMAIN st |-> IF GlobMatch(p, k) THEN None ELSE st[k]]
                                       ELSE st

\* CacheService.delete_pattern: number of keys removed
CacheDeletePatternRet(en, down, st, p) == IF en /\ ~down
                                          THEN Cardinality({k \in DOMAIN st : GlobMatch(p, k) /\ st[k] # None})
                                          ELSE 0

RECURSIVE CacheDeletePatterns(_, _, _, _, _)
\* the loop "for pattern in patterns: self.delete_pattern(pattern)"; downs = calls on which the store raises
CacheDeletePatterns(en, downs, st, ps, i) == IF i > Len(ps) THEN st
                                             ELSE CacheDeletePatterns(en, downs,
                                                    CacheDeletePattern(en, i \in downs, st, ps[i]), ps, i + 1)

WorkspacePatterns(w) == << <<"workspace", w, "*">>, <<"workspace", w, "stats">>,
                           <<"workspace", w, "documents">>, <<"workspace", w, "metadata">>,
                           <<"vector_search", w, "*">>, <<"document", "*", "workspace", w>> >>

DocumentPatterns(d, w) == << <<"document", d, "*">>, <<"workspace", w, "documents">>,
                             <<"workspace", w, "stats">>, <<"vector_search", w, "*">> >>

\* CacheService.invalidate_workspace
InvalidateWorkspace(en, downs, st, w) == CacheDeletePatterns(en, downs, st, WorkspacePatterns(w), 1)

\* CacheService.invalidate_document
InvalidateDocument(en, downs, st, d, w) == CacheDeletePatterns(en, downs, st, DocumentPatterns(d, w), 1)


(***************************************************************************)
(* Authoritative reads                                                     *)
(***************************************************************************)
RowExists(d) == row[d] \in Statuses

\* db.query(Document).filter(workspace_id == w).all(), as DocumentResponse list
QueryDocuments == {<<d, row[d]>> : d \in {x \in Docs : RowExists(x)}}

\* the JSON list list_documents caches: [d.model_dump(mode='json') for d in result]
DumpDocuments(res) == {<<p[1], DocumentStatusValue(p[2])>> : p \in res}

\* [DocumentResponse.model_validate(d) for d in cached]
ValidateDocuments(js) == {<<p[1], DocumentStatusFromValue(p[2])>> : p \in js}

\* collection.query with where = filter_metadata: the documents whose entries are hit
QueryCollection(f) == IF f = "all" THEN vec ELSE vec \cap {f}

NoDowns == {}

(***************************************************************************)
(* upload_document                                                         *)
(***************************************************************************)
\* documents.py 157-171: the extension is not allowed: 400, before anything is written
upload_document_rejected(d) ==
  /\ upc[d] = "idle"
  /\ workspaceRow
  /\ upc' = [upc EXCEPT ![d] = "rejected"]
  /\ UNCHANGED <<row, file, vec, wpc, wChunks, dpc, unflushed, cacheVars, dRace, searchVars, listVars, callVars, pipelineVars, wsVars, unitVars>>

\* documents.py 178-181, 211-224: writing the file raises; what was written of it is
\* unlinked and ProcessingError raised
upload_document_write_failed(d) ==
  /\ upc[d] = "idle"
  /\ workspaceRow
  /\ upc' = [upc EXCEPT ![d] = "raised"]
  /\ file' = [file EXCEPT ![d] = FALSE]
  /\ UNCHANGED <<row, vec, wpc, wChunks, dpc, unflushed, cacheVars, dRace, searchVars, listVars, callVars, pipelineVars, wsVars, unitVars>>

\* documents.py 150-181: the workspace exists; the file is written under a fresh document id
upload_document_write_file(d) ==
  /\ upc[d] = "idle"
  /\ workspaceRow
  /\ upc' = [upc EXCEPT ![d] = "file_written"]
  /\ file' = [file EXCEPT ![d] = TRUE]
  /\ UNCHANGED <<row, vec, wpc, wChunks, dpc, unflushed, cacheVars, dRace, searchVars, listVars, callVars, pipelineVars, wsVars, unitVars>>

\* documents.py 183-196: db.add(document); db.commit()
upload_document_commit(d) ==
  /\ upc[d] = "file_written"
  /\ row' = [row EXCEPT ![d] = "Uploaded"]
  /\ unflushed' = unflushed \cup {<<"upload", d>>}
  /\ upc' = [upc EXCEPT ![d] = "committed"]
  /\ UNCHANGED <<file, vec, wpc, wChunks, dpc, cacheVars, dRace, searchVars, listVars, callVars, pipelineVars, wsVars, unitVars>>

\* documents.py 211-224: the commit raised; the file is unlinked and ProcessingError raised
upload_document_commit_failed(d) ==
  /\ upc[d] = "file_written"
  /\ file' = [file EXCEPT ![d] = FALSE]
  /\ upc' = [upc EXCEPT ![d] = "raised"]
  /\ UNCHANGED <<row, vec, wpc, wChunks, dpc, unflushed, cacheVars, dRace, searchVars, listVars, callVars, pipelineVars, wsVars, unitVars>>

\* documents.py 196, 211-224: db.refresh(document) raises after the commit went
\* through; the handler unlinks the file and raises ProcessingError
upload_document_refresh_failed(d) ==
  /\ upc[d] = "committed"
  /\ file' = [file EXCEPT ![d] = FALSE]
  /\ upc' = [upc EXCEPT ![d] = "raised"]
  /\ UNCHANGED <<row, vec, wpc, wChunks, dpc, unflushed, cacheVars, dRace, searchVars, listVars, callVars, pipelineVars, wsVars, unitVars>>

\* documents.py 198-209: invalidate_workspace, delete of the documents key, add_task, return
upload_document_invalidate(d) ==
  /\ upc[d] = "committed"
  /\ cache' = CacheDelete(cacheEnabled, FALSE,
                          InvalidateWorkspace(cacheEnabled, NoDowns, cache, Workspace),
                          DocumentsKey(Workspace))
  /\ unflushed' = unflushed \ {<<"upload", d>>}
  /\ wpc' = [wpc EXCEPT ![d] = "queued"]
  /\ upc' = [upc EXCEPT ![d] = "done"]
  /\ UNCHANGED <<row, file, vec, wChunks, dpc, cacheEnabled, dRace, searchVars, listVars, callVars, pipelineVars, wsVars, unitVars>>

(***************************************************************************)
(* process_document_background                                             *)
(* A commit of an UPDATE whose row is gone matches no row: the ORM raises  *)
(* (StaleDataError), the outer "except Exception" handler sets FAILED and  *)
(* commits again, which raises again and leaves the task; nothing is       *)
(* written.                                                                *)
(***************************************************************************)
\* documents.py 40-44: initial load; a missing row is logged and the task returns
process_load(d) ==
  /\ wpc[d] = "queued"
  /\ wpc' = [wpc EXCEPT ![d] = IF RowExists(d) THEN "loaded" ELSE "done_not_found"]
  /\ UNCHANGED <<row, file, vec, upc, wChunks, dpc, unflushed, cacheVars, dRace, searchVars, listVars, callVars, pipelineVars, wsVars, unitVars>>

\* documents.py 51-53: document.status = PROCESSING; db.commit()
process_set_processing(d) ==
  /\ wpc[d] = "loaded"
  /\ IF RowExists(d)
     THEN /\ row' = [row EXCEPT ![d] = "Processing"]
          /\ unflushed' = unflushed \cup {<<"worker", d>>}
          /\ wpc' = [wpc EXCEPT ![d] = "processing"]
     ELSE /\ wpc' = [wpc EXCEPT ![d] = "raised"]
          /\ UNCHANGED <<row, unflushed>>
  /\ UNCHANGED <<file, vec, upc, wChunks, dpc, cacheVars, dRace, searchVars, listVars, callVars, pipelineVars, wsVars, unitVars>>

\* documents.py 56-66: processor.process_pdf / process_docx succeeds (the file must be there)
process_extract_ok(d) ==
  /\ wpc[d] = "processing"
  /\ file[d]
  /\ \E c \in BOOLEAN : wChunks' = [wChunks EXCEPT ![d] = c]
  /\ wpc' = [wpc EXCEPT ![d] = "extracted"]
  /\ UNCHANGED <<row, file, vec, upc, dpc, unflushed, cacheVars, dRace, searchVars, listVars, callVars, pipelineVars, wsVars, unitVars>>

\* documents.py 67-77: the processor raised; re-raised as ProcessingError
process_extract_failed(d) ==
  /\ wpc[d] = "processing"
  /\ wpc' = [wpc EXCEPT ![d] = "processing_error"]
  /\ UNCHANGED <<row, file, vec, upc, wChunks, dpc, unflushed, cacheVars, dRace, searchVars, listVars, callVars, pipelineVars, wsVars, unitVars>>

\* variant: the ProcessingError handler leaves the status as it is
process_mark_failed_skipped(d) ==
  /\ wpc[d] = "processing_error"
  /\ wpc' = [wpc EXCEPT ![d] = "raised"]
  /\ UNCHANGED <<row, file, vec, upc, wChunks, dpc, unflushed, cacheVars, dRace, searchVars, listVars, callVars, pipelineVars, wsVars, unitVars>>

\* documents.py 115-120: except ProcessingError: status = FAILED; commit; raise
process_mark_failed(d) ==
  /\ wpc[d] = "processing_error"
  /\ IF RowExists(d)
     THEN /\ row' = [row EXCEPT ![d] = "Failed"]
          /\ unflushed' = unflushed \cup {<<"worker", d>>}
     ELSE UNCHANGED <<row, unflushed>>
  /\ wpc' = [wpc EXCEPT ![d] = "raised"]
  /\ UNCHANGED <<file, vec, upc, wChunks, dpc, cacheVars, dRace, searchVars, listVars, callVars, pipelineVars, wsVars, unitVars>>

\* documents.py 79-82: page_count, status = PROCESSED; db.commit()
process_commit_processed(d) ==
  /\ wpc[d] = "extracted"
  /\ IF RowExists(d)
     THEN /\ row' = [row EXCEPT ![d] = "Processed"]
          /\ unflushed' = unflushed \cup {<<"worker", d>>}
          /\ wpc' = [wpc EXCEPT ![d] = "committed"]
     ELSE /\ wpc' = [wpc EXCEPT ![d] = "raised"]
          /\ UNCHANGED <<row, unflushed>>
  /\ UNCHANGED <<file, vec, upc, wChunks, dpc, cacheVars, dRace, searchVars, listVars, callVars, pipelineVars, wsVars, unitVars>>

\* documents.py 84-89: cache_service.invalidate_workspace(document.workspace_id); chunks = ...
\* (the commit expired the instance: reading workspace_id reloads the row, which must exist)
process_invalidate(d) ==
  /\ wpc[d] = "committed"
  /\ RowExists(d)
  /\ cache' = InvalidateWorkspace(cacheEnabled, NoDowns, cache, Workspace)
  /\ unflushed' = unflushed \ {<<"worker", d>>}
  /\ wpc' = [wpc EXCEPT ![d] = IF wChunks[d] THEN "indexing" ELSE "done"]
  /\ UNCHANGED <<row, file, vec, upc, wChunks, dpc, cacheEnabled, dRace, searchVars, listVars, callVars, pipelineVars, wsVars, unitVars>>

\* documents.py 85: the attribute load of the expired row finds it deleted; the handler's commit raises
process_invalidate_row_gone(d) ==
  /\ wpc[d] = "committed"
  /\ ~RowExists(d)
  /\ wpc' = [wpc EXCEPT ![d] = "raised"]
  /\ UNCHANGED <<row, file, vec, upc, wChunks, dpc, unflushed, cacheVars, dRace, searchVars, listVars, callVars, pipelineVars, wsVars, unitVars>>

\* documents.py 90-100, vector_store.py 170-178: collection.add of the document's chunks
process_index_ok(d) ==
  /\ wpc[d] = "indexing"
  /\ vec' = vec \cup {d}
  /\ unflushed' = unflushed \cup {<<"worker", d>>}
  /\ wpc' = [wpc EXCEPT ![d] = "done"]
  /\ UNCHANGED <<row, file, upc, wChunks, dpc, cacheVars, dRace, searchVars, listVars, callVars, pipelineVars, wsVars, unitVars>>

\* variant: the indexing failure is treated like a processing failure (status := FAILED)
process_index_failed_marks_failed(d) ==
  /\ wpc[d] = "indexing"
  /\ row' = [row EXCEPT ![d] = IF RowExists(d) THEN "Failed" ELSE @]
  /\ wpc' = [wpc EXCEPT ![d] = "done_index_failed"]
  /\ UNCHANGED <<file, vec, upc, wChunks, dpc, unflushed, cacheVars, dRace, searchVars, listVars, callVars, pipelineVars, wsVars, unitVars>>

\* documents.py 101-108: indexing raised (or no embedding survived); logged, status untouched
process_index_failed(d) ==
  /\ wpc[d] = "indexing"
  /\ wpc' = [wpc EXCEPT ![d] = "done_index_failed"]
  /\ UNCHANGED <<row, file, vec, upc, wChunks, dpc, unflushed, cacheVars, dRace, searchVars, listVars, callVars, pipelineVars, wsVars, unitVars>>

\* between the initial load (line 40) and the end of the task
WorkerRunning(d) == wpc[d] \in {"loaded", "processing", "extracted", "processing_error", "committed", "indexing"}

WorkerFinished(d) == wpc[d] \in {"done", "done_index_failed", "done_not_found", "raised"}

(***************************************************************************)
(* delete_document                                                         *)
(***************************************************************************)
\* documents.py 370-384: load the row (404 when missing), unlink the file
delete_document_load(d) ==
  /\ dpc[d] = "idle"
  /\ RowExists(d)
  /\ file' = [file EXCEPT ![d] = FALSE]
  /\ dpc' = [dpc EXCEPT ![d] = "loaded"]
  /\ UNCHANGED <<row, vec, upc, wpc, wChunks, unflushed, cacheVars, dRace, searchVars, listVars, callVars, pipelineVars, wsVars, unitVars>>

\* documents.py 386-390, vector_store.py 278-291: collection.delete(where document_id = d)
delete_document_vectors(d) ==
  /\ dpc[d] = "loaded"
  /\ vec' = vec \ {d}
  /\ dpc' = [dpc EXCEPT ![d] = "vectors_deleted"]
  /\ UNCHANGED <<row, file, upc, wpc, wChunks, unflushed, cacheVars, dRace, searchVars, listVars, callVars, pipelineVars, wsVars, unitVars>>

\* documents.py 392-393: cache_service.invalidate_document(d, w)
delete_document_invalidate(d) ==
  /\ dpc[d] = "vectors_deleted"
  /\ cache' = InvalidateDocument(cacheEnabled, NoDowns, cache, d, Workspace)
  /\ dpc' = [dpc EXCEPT ![d] = "invalidated"]
  /\ UNCHANGED <<row, file, vec, upc, wpc, wChunks, unflushed, cacheEnabled, dRace, searchVars, listVars, callVars, pipelineVars, wsVars, unitVars>>

\* documents.py 395-398: db.delete(document); db.commit(); return
\* (Document.clauses cascades: the clause rows of d are deleted with it)
delete_document_commit(d) ==
  /\ dpc[d] = "invalidated"
  /\ row' = [row EXCEPT ![d] = NoRow]
  /\ clauseRows' = [clauseRows EXCEPT ![d] = {}]
  /\ unflushed' = unflushed \cup {<<"delete", d>>}
  /\ dpc' = [dpc EXCEPT ![d] = "done"]
  /\ dRace' = IF WorkerRunning(d) THEN dRace \cup {d} ELSE dRace
  /\ eRace' = IF epc[d] \in {"deleting", "cleared", "chunks", "added", "validated"}
              THEN eRace \cup {d} ELSE eRace
  /\ UNCHANGED <<file, vec, upc, wpc, wChunks, cacheEnabled, cache, searchVars, listVars, callVars, pipelineVars,
                 workspaceRow, conversationRow, xpc, epc, eForce, eNew, eResp, eGen, eOld, unitVars>>

Deleted == {d \in Docs : dpc[d] = "done"}


(***************************************************************************)
(* VectorStore.search (one caller, any number of calls)                    *)
(***************************************************************************)
\* vector_store.py 203-219: build the key, cache_service.get; a hit is returned as is
search_cache_get(f) ==
  /\ spc = "idle"
  /\ sAfterDelete' = Deleted
  /\ sFilter' = f
  /\ LET cached == CacheGet(cacheEnabled, FALSE, cache, SearchKey(Workspace, f))
     IN IF cached # None
        THEN /\ spc' = "returned"
             /\ sRes' = cached[1]
             /\ sFromCache' = TRUE
             /\ sFresh' = QueryCollection(f)
        ELSE /\ spc' = "query"
             /\ UNCHANGED <<sRes, sFromCache, sFresh>>
  /\ UNCHANGED <<sVal, row, file, vec, upc, wpc, wChunks, dpc, unflushed, cacheVars, dRace, listVars, callVars, pipelineVars, wsVars, unitVars>>

\* vector_store.py 221-271: embed the query, collection.query, format the hits
search_query ==
  /\ spc = "query"
  /\ sVal' = QueryCollection(sFilter)
  /\ spc' = "computed"
  /\ UNCHANGED <<sFilter, sRes, sFromCache, sFresh, sAfterDelete,
                 row, file, vec, upc, wpc, wChunks, dpc, unflushed, cacheVars, dRace, listVars, callVars, pipelineVars, wsVars, unitVars>>

\* vector_store.py 224-226: no query embedding: return [] (nothing cached)
search_no_embedding ==
  /\ spc = "query"
  /\ spc' = "returned"
  /\ sRes' = {}
  /\ sFromCache' = FALSE
  /\ sFresh' = {}
  /\ UNCHANGED <<sFilter, sVal, sAfterDelete,
                 row, file, vec, upc, wpc, wChunks, dpc, unflushed, cacheVars, dRace, listVars, callVars, pipelineVars, wsVars, unitVars>>

\* vector_store.py 273-276: cache_service.set(cache_key, formatted_results); return
search_cache_set ==
  /\ spc = "computed"
  /\ cache' = CacheSet(cacheEnabled, FALSE, cache, SearchKey(Workspace, sFilter), sVal)
  /\ spc' = "returned"
  /\ sRes' = sVal
  /\ sFromCache' = FALSE
  /\ sFresh' = QueryCollection(sFilter)
  /\ UNCHANGED <<sFilter, sVal, sAfterDelete,
                 row, file, vec, upc, wpc, wChunks, dpc, unflushed, cacheEnabled, dRace, listVars, callVars, pipelineVars, wsVars, unitVars>>

\* the caller takes the result; the next call may start
search_done ==
  /\ spc = "returned"
  /\ spc' = "idle"
  /\ sFilter' = "all" /\ sVal' = {} /\ sRes' = {} /\ sFromCache' = FALSE /\ sFresh' = {}
  /\ sAfterDelete' = {}
  /\ UNCHANGED <<row, file, vec, upc, wpc, wChunks, dpc, unflushed, cacheVars, dRace, listVars, callVars, pipelineVars, wsVars, unitVars>>

(***************************************************************************)
(* list_documents (one caller, any number of calls)                        *)
(***************************************************************************)
\* documents.py 234-248: the workspace is found; cache_service.get; a hit is validated
\* back into responses
list_documents_cache_get ==
  /\ lpc = "idle"
  /\ workspaceRow
  /\ LET cached == CacheGet(cacheEnabled, FALSE, cache, DocumentsKey(Workspace))
     IN IF cached # None
        THEN /\ lpc' = "returned"
             /\ lRes' = ValidateDocuments(cached[1])
             /\ lFromCache' = TRUE
             /\ lFresh' = QueryDocuments
        ELSE /\ lpc' = "query"
             /\ UNCHANGED <<lRes, lFromCache, lFresh>>
  /\ UNCHANGED <<lVal, row, file, vec, upc, wpc, wChunks, dpc, unflushed, cacheVars, dRace, searchVars, callVars, pipelineVars, wsVars, unitVars>>

\* documents.py 250-255: query the documents table
list_documents_query ==
  /\ lpc = "query"
  /\ lVal' = QueryDocuments
  /\ lpc' = "computed"
  /\ UNCHANGED <<lRes, lFromCache, lFresh, row, file, vec, upc, wpc, wChunks, dpc, unflushed, cacheVars, dRace, searchVars, callVars, pipelineVars, wsVars, unitVars>>

\* documents.py 257-261: cache_service.set(cache_key, dumps, ttl=60); return result
list_documents_cache_set ==
  /\ lpc = "computed"
  /\ cache' = CacheSet(cacheEnabled, FALSE, cache, DocumentsKey(Workspace), DumpDocuments(lVal))
  /\ lpc' = "returned"
  /\ lRes' = lVal
  /\ lFromCache' = FALSE
  /\ lFresh' = QueryDocuments
  /\ UNCHANGED <<lVal, row, file, vec, upc, wpc, wChunks, dpc, unflushed, cacheEnabled, dRace, searchVars, callVars, pipelineVars, wsVars, unitVars>>

list_documents_done ==
  /\ lpc = "returned"
  /\ lpc' = "idle"
  /\ lVal' = {} /\ lRes' = {} /\ lFromCache' = FALSE /\ lFresh' = {}
  /\ UNCHANGED <<row, file, vec, upc, wpc, wChunks, dpc, unflushed, cacheVars, dRace, searchVars, callVars, pipelineVars, wsVars, unitVars>>

\* cache.py 66: setex: an entry disappears when its TTL runs out
cache_expire(k) ==
  /\ cache[k] # None
  /\ cache' = [cache EXCEPT ![k] = None]
  /\ UNCHANGED <<row, file, vec, upc, wpc, wChunks, dpc, unflushed, cacheEnabled, dRace, searchVars, listVars, callVars, pipelineVars, wsVars, unitVars>>

(***************************************************************************)
(* Specification: ingest, deletion and the readers                          *)
(***************************************************************************)
CallIdle ==
  /\ cOp = <<"none">> /\ cRet = None /\ cRaised = FALSE /\ cStoreDown = FALSE /\ cBefore = None

\* no question asked yet: the graph has not run
\* the initial state of a run, before its inputs are read: no call made yet
NoRagCall ==
  /\ question = "" /\ document_ids = None
  /\ searchCalls = 0 /\ classifierCalls = 0 /\ structuredCalls = 0

RagIdle ==
  /\ gpc = "idle" /\ results = <<>> /\ structured_answer = [answer |-> <<>>, cited_sources |-> <<>>]
  /\ retrieved_chunks = <<>> /\ answer = <<>> /\ citations = <<>> /\ error = "None"
  /\ NoRagCall

Askers == {"a1", "a2"}

\* a new conversation: no message, no ask_question call in flight
AskIdle ==
  /\ messages = <<>> /\ apc = [a \in Askers |-> "idle"]
  /\ next_index = [a \in Askers |-> 0] /\ asks = 0

\* the workspace and its conversation exist, no clause is stored
WorkspaceIdle ==
  /\ workspaceRow = TRUE /\ conversationRow = TRUE /\ xpc = "idle"
  /\ clauseRows = [d \in Docs |-> {}]
  /\ epc = [d \in Docs |-> "idle"] /\ eForce = [d \in Docs |-> FALSE]
  /\ eNew = [d \in Docs |-> {}] /\ eResp = [d \in Docs |-> None] /\ eGen = 0
  /\ eOld = [d \in Docs |-> {}] /\ eRace = {}

\* no deduplicator run under observation
DedupIdle ==
  /\ dedupIn = <<>> /\ dedupDecisions = {} /\ dedupOut1 = <<>> /\ dedupOut2 = <<>>
  /\ dedupPc = "twice"

\* no failed request under observation
ErrIdle == errRaised = None /\ errEnvironment = "production" /\ errResponse = None

\* no file being processed under observation
PageIdle ==
  /\ page_text_map = <<>> /\ structureReply = None /\ resultChunks = <<>> /\ entries = {}
  /\ pagePc = "indexed"

\* no wrapped call under observation
RetryIdle ==
  /\ rtConfig = [max_retries |-> 0, retryable_exceptions |-> <<"Exception">>]
  /\ rtFunc = "func" /\ rtAttempt = 0 /\ rtRemote = <<>> /\ rtInvocations = <<>> /\ rtSleeps = 0
  /\ rtPc = "returned" /\ rtResult = None /\ embResult = None

\* no second document in the collection under observation
IndexIdle == collection = {} /\ idxDocument = None /\ idxAdded = {} /\ idxDone = {}

\* no second workspace under observation
IsoIdle == collections = <<>> /\ sWorkspace = "w1"

\* no request by another caller under observation
AuthIdle ==
  /\ authCaller = "u1" /\ authEndpoint = "none" /\ authStatus = 0 /\ conversationTitle = "t0"

ExtIdle == RetryIdle /\ IndexIdle /\ IsoIdle /\ AuthIdle

UnitIdle == DedupIdle /\ ErrIdle /\ PageIdle /\ ExtIdle

\* empty tables, upload directory and collection; no request in flight
RequestsIdle ==
  /\ row = [d \in Docs |-> NoRow]
  /\ file = [d \in Docs |-> FALSE]
  /\ vec = {}
  /\ upc = [d \in Docs |-> "idle"]
  /\ wpc = [d \in Docs |-> "idle"]
  /\ wChunks = [d \in Docs |-> FALSE]
  /\ dpc = [d \in Docs |-> "idle"]
  /\ unflushed = {}
  /\ dRace = {}
  /\ spc = "idle" /\ sFilter = "all" /\ sVal = {} /\ sRes = {} /\ sFromCache = FALSE
  /\ sFresh = {} /\ sAfterDelete = {}
  /\ lpc = "idle" /\ lVal = {} /\ lRes = {} /\ lFromCache = FALSE /\ lFresh = {}
  /\ CallIdle

\* empty tables, upload directory, collection and cache; no request in flight
TablesIdle == RequestsIdle /\ cache = [k \in Keys |-> None]

DocumentsIdle == WorkspaceIdle /\ UnitIdle /\ TablesIdle

Init ==
  /\ DocumentsIdle /\ cacheEnabled \in BOOLEAN
  /\ RagIdle /\ AskIdle

Next ==
  \/ \E d \in Docs : upload_document_rejected(d)
  \/ \E d \in Docs : upload_document_write_failed(d)
  \/ \E d \in Docs : upload_document_refresh_failed(d)
  \/ \E d \in Docs : upload_document_write_file(d)
  \/ \E d \in Docs : upload_document_commit(d)
  \/ \E d \in Docs : upload_document_commit_failed(d)
  \/ \E d \in Docs : upload_document_invalidate(d)
  \/ \E d \in Docs : process_load(d)
  \/ \E d \in Docs : process_set_processing(d)
  \/ \E d \in Docs : process_extract_ok(d)
  \/ \E d \in Docs : process_extract_failed(d)
  \/ \E d \in Docs : process_mark_failed(d)
  \/ \E d \in Docs : process_commit_processed(d)
  \/ \E d \in Docs : process_invalidate(d)
  \/ \E d \in Docs : process_invalidate_row_gone(d)
  \/ \E d \in Docs : process_index_ok(d)
  \/ \E d \in Docs : process_index_failed(d)
  \/ \E d \in Docs : delete_document_load(d)
  \/ \E d \in Docs : delete_document_vectors(d)
  \/ \E d \in Docs : delete_document_invalidate(d)
  \/ \E d \in Docs : delete_document_commit(d)
  \/ \E f \in Filters : search_cache_get(f)
  \/ search_query
  \/ search_no_embedding
  \/ search_cache_set
  \/ search_done
  \/ list_documents_cache_get
  \/ list_documents_query
  \/ list_documents_cache_set
  \/ list_documents_done
  \/ \E k \in Keys : cache_expire(k)

Spec == Init /\ [][Next]_vars

(***************************************************************************)
(* Specification: the same operations run one after another (a request or  *)
(* the background task starts only when no other operation is in flight)   *)
(***************************************************************************)
UploadBusy(d) == upc[d] \in {"file_written", "committed"}
DeleteBusy(d) == dpc[d] \in {"loaded", "vectors_deleted", "invalidated"}
Busy == {<<"upload", d>> : d \in {x \in Docs : UploadBusy(x)}}
        \cup {<<"worker", d>> : d \in {x \in Docs : WorkerRunning(x)}}
        \cup {<<"delete", d>> : d \in {x \in Docs : DeleteBusy(x)}}
        \cup (IF spc # "idle" THEN {<<"search", "-">>} ELSE {})
        \cup (IF lpc # "idle" THEN {<<"list", "-">>} ELSE {})

NextSeq ==
  \/ \E d \in Docs : Busy \subseteq {<<"upload", d>>} /\ upload_document_rejected(d)
  \/ \E d \in Docs : Busy \subseteq {<<"upload", d>>} /\ upload_document_write_failed(d)
  \/ \E d \in Docs : Busy \subseteq {<<"upload", d>>} /\ upload_document_refresh_failed(d)
  \/ \E d \in Docs : Busy \subseteq {<<"upload", d>>} /\ upload_document_write_file(d)
  \/ \E d \in Docs : Busy \subseteq {<<"upload", d>>} /\ upload_document_commit(d)
  \/ \E d \in Docs : Busy \subseteq {<<"upload", d>>} /\ upload_document_commit_failed(d)
  \/ \E d \in Docs : Busy \subseteq {<<"upload", d>>} /\ upload_document_invalidate(d)
  \/ \E d \in Docs : Busy \subseteq {<<"worker", d>>} /\ process_load(d)
  \/ \E d \in Docs : Busy \subseteq {<<"worker", d>>} /\ process_set_processing(d)
  \/ \E d \in Docs : Busy \subseteq {<<"worker", d>>} /\ process_extract_ok(d)
  \/ \E d \in Docs : Busy \subseteq {<<"worker", d>>} /\ process_extract_failed(d)
  \/ \E d \in Docs : Busy \subseteq {<<"worker", d>>} /\ process_mark_failed(d)
  \/ \E d \in Docs : Busy \subseteq {<<"worker", d>>} /\ process_commit_processed(d)
  \/ \E d \in Docs : Busy \subseteq {<<"worker", d>>} /\ process_invalidate(d)
  \/ \E d \in Docs : Busy \subseteq {<<"worker", d>>} /\ process_index_ok(d)
  \/ \E d \in Docs : Busy \subseteq {<<"worker", d>>} /\ process_index_failed(d)
  \/ \E d \in Docs : Busy \subseteq {<<"delete", d>>} /\ delete_document_load(d)
  \/ \E d \in Docs : Busy \subseteq {<<"delete", d>>} /\ delete_document_vectors(d)
  \/ \E d \in Docs : Busy \subseteq {<<"delete", d>>} /\ delete_document_invalidate(d)
  \/ \E d \in Docs : Busy \subseteq {<<"delete", d>>} /\ delete_document_commit(d)
  \/ \E f \in Filters : Busy \subseteq {<<"search", "-">>} /\ search_cache_get(f)
  \/ Busy \subseteq {<<"search", "-">>} /\ search_query
  \/ Busy \subseteq {<<"search", "-">>} /\ search_no_embedding
  \/ Busy \subseteq {<<"search", "-">>} /\ search_cache_set
  \/ Busy \subseteq {<<"search", "-">>} /\ search_done
  \/ Busy \subseteq {<<"list", "-">>} /\ list_documents_cache_get
  \/ Busy \subseteq {<<"list", "-">>} /\ list_documents_query
  \/ Busy \subseteq {<<"list", "-">>} /\ list_documents_cache_set
  \/ Busy \subseteq {<<"list", "-">>} /\ list_documents_done
  \/ \E k \in Keys : cache_expire(k)

SpecSeq == Init /\ [][NextSeq]_vars


(***************************************************************************)
(* Claims on Spec                                                          *)
(***************************************************************************)
StatusEdge(a, b) ==
  \/ a = b
  \/ a = "Uploaded" /\ b = "Processing"
  \/ a = "Processing" /\ b \in {"Processed", "Failed"}

\* C1: a document row's status only moves Uploaded -> Processing -> Processed | Failed:
\* a row is created as Uploaded, every later write follows an edge of that graph (so
\* Processed and Failed are never overwritten, also after an indexing failure and
\* under interleaving with delete_document), and nothing is written to a deleted row.
C1_StatusMonotone ==
  [][\A d \in Docs :
       /\ (row[d] \in Statuses /\ row'[d] \in Statuses) => StatusEdge(row[d], row'[d])
       /\ (row[d] = NoRow /\ row'[d] # NoRow) => (row'[d] = "Uploaded" /\ upc[d] = "file_written")
    ]_vars

\* C1 witness: the indexing failed after Processed was committed, a delete is under way,
\* and the row still reads Processed
C1_Witness ==
  \E d \in Docs : row[d] = "Processed" /\ wpc[d] = "done_index_failed" /\ dpc[d] = "vectors_deleted"

\* C2: when delete_document(d) completed while the worker of d was running, then once
\* the worker has finished too, the collection holds no entry of d and the row of d
\* carries no status
C2_NoOrphanAfterRacingDelete ==
  \A d \in dRace : WorkerFinished(d) => (d \notin vec /\ row[d] = NoRow)

\* C3: a search that starts after delete_document(d) returned never returns a hit of d,
\* whether it is answered from the collection or from the vector-search cache
C3_NoHitAfterDelete ==
  spc = "returned" => sRes \cap sAfterDelete = {}

\* C6: every operation that wrote authoritative state has run its cache invalidation
\* after its last write by the time it returns
C6_InvalidateAfterWrite ==
  \A d \in Docs :
    /\ upc[d] = "done" => <<"upload", d>> \notin unflushed
    /\ WorkerFinished(d) => <<"worker", d>> \notin unflushed
    /\ dpc[d] = "done" => <<"delete", d>> \notin unflushed

\* C7: a result served from the cache (search, list_documents) equals what recomputation
\* against the collection / the documents table returns at that moment, i.e. what the
\* same call returns with the cache disabled
C7_CacheTransparent ==
  /\ (spc = "returned" /\ sFromCache) => sRes = sFresh
  /\ (lpc = "returned" /\ lFromCache) => lRes = lFresh


(***************************************************************************)
(* Specification: CacheService called directly, against a store that may   *)
(* be disabled (ping failed at construction) or fail on any later call     *)
(***************************************************************************)
Values == {"v1", "v2"}

\* what a store command can raise: redis ConnectionError / TimeoutError are RedisError
StoreErrors == {"RedisError"}

\* cache.py 53, 68, 80, 94: the except clauses of the four primitives
GetCatches == {"RedisError", "JSONDecodeError"}
SetCatches == {"RedisError", "TypeError"}
DeleteCatchesNothing == {}
DeleteCatches == {"RedisError"}
DeletePatternCatches == {"RedisError"}

\* an error raised inside a try block leaves the method iff no except clause names it
Escapes(err, catches) == err # "none" /\ err \notin catches

SamplePatterns == {WorkspacePatterns(Workspace)[i] : i \in 1..Len(WorkspacePatterns(Workspace))}
                  \cup {DocumentPatterns(d, Workspace)[i] : d \in Docs, i \in 1..Len(DocumentPatterns("d1", Workspace))}
                  \cup {<<"embedding", "*">>}

Errs == {"none"} \cup StoreErrors

\* cache.py 44-56
cache_get(k, err) ==
  /\ cOp' = <<"get">>
  /\ cStoreDown' = (err # "none")
  /\ cRaised' = (cacheEnabled /\ Escapes(err, GetCatches))
  /\ cRet' = CacheGet(cacheEnabled, err # "none", cache, k)
  /\ cBefore' = cache
  /\ UNCHANGED <<cacheVars, docVars, pipelineVars, wsVars, unitVars>>

\* cache.py 58-70
cache_set(k, v, err) ==
  /\ cOp' = <<"set">>
  /\ cStoreDown' = (err # "none")
  /\ cRaised' = (cacheEnabled /\ Escapes(err, SetCatches))
  /\ cache' = CacheSet(cacheEnabled, err # "none", cache, k, v)
  /\ cRet' = Some(CacheSetRet(cacheEnabled, err # "none"))
  /\ cBefore' = cache
  /\ UNCHANGED <<cacheEnabled, docVars, pipelineVars, wsVars, unitVars>>

\* cache.py 72-82
cache_delete(k, err) ==
  /\ cOp' = <<"delete">>
  /\ cStoreDown' = (err # "none")
  /\ cRaised' = (cacheEnabled /\ Escapes(err, DeleteCatches))
  /\ cache' = CacheDelete(cacheEnabled, err # "none", cache, k)
  /\ cRet' = Some(CacheDeleteRet(cacheEnabled, err # "none"))
  /\ cBefore' = cache
  /\ UNCHANGED <<cacheEnabled, docVars, pipelineVars, wsVars, unitVars>>

\* cache.py 84-96
cache_delete_pattern(p, err) ==
  /\ cOp' = <<"delete_pattern">>
  /\ cStoreDown' = (err # "none")
  /\ cRaised' = (cacheEnabled /\ Escapes(err, DeletePatternCatches))
  /\ cache' = CacheDeletePattern(cacheEnabled, err # "none", cache, p)
  /\ cRet' = Some(CacheDeletePatternRet(cacheEnabled, err # "none", cache, p))
  /\ cBefore' = cache
  /\ UNCHANGED <<cacheEnabled, docVars, pipelineVars, wsVars, unitVars>>

\* cache.py 102-113: six delete_pattern calls; downs = the calls on which the store raises
cache_invalidate_workspace(w, downs) ==
  /\ cOp' = <<"invalidate_workspace">>
  /\ cStoreDown' = (downs = 1..Len(WorkspacePatterns(w)))
  /\ cRaised' = (cacheEnabled /\ downs # {} /\ \E e \in StoreErrors : Escapes(e, DeletePatternCatches))
  /\ cache' = InvalidateWorkspace(cacheEnabled, downs, cache, w)
  /\ cRet' = None
  /\ cBefore' = cache
  /\ UNCHANGED <<cacheEnabled, docVars, pipelineVars, wsVars, unitVars>>

\* cache.py 115-124: four delete_pattern calls
cache_invalidate_document(d, w, downs) ==
  /\ cOp' = <<"invalidate_document">>
  /\ cStoreDown' = (downs = 1..Len(DocumentPatterns(d, w)))
  /\ cRaised' = (cacheEnabled /\ downs # {} /\ \E e \in StoreErrors : Escapes(e, DeletePatternCatches))
  /\ cache' = InvalidateDocument(cacheEnabled, downs, cache, d, w)
  /\ cRet' = None
  /\ cBefore' = cache
  /\ UNCHANGED <<cacheEnabled, docVars, pipelineVars, wsVars, unitVars>>

\* cache.py 126-144: get; on a miss func() is computed (fv), set, and returned
cache_get_or_set(k, fv, errGet, errSet) ==
  /\ cOp' = <<"get_or_set", fv>>
  /\ LET cached == CacheGet(cacheEnabled, errGet # "none", cache, k)
         getEscapes == cacheEnabled /\ Escapes(errGet, GetCatches)
     IN /\ cStoreDown' = (errGet # "none" /\ errSet # "none")
        /\ IF getEscapes
           THEN cRaised' = TRUE /\ cRet' = None /\ cache' = cache
           ELSE IF cached # None
           THEN cRaised' = FALSE /\ cRet' = cached /\ cache' = cache
           ELSE /\ cRaised' = (cacheEnabled /\ Escapes(errSet, SetCatches))
                /\ cache' = CacheSet(cacheEnabled, errSet # "none", cache, k, fv)
                /\ cRet' = IF cacheEnabled /\ Escapes(errSet, SetCatches) THEN None ELSE Some(fv)
  /\ cBefore' = cache
  /\ UNCHANGED <<cacheEnabled, docVars, pipelineVars, wsVars, unitVars>>

InitCache ==
  /\ DocumentsIdle /\ cacheEnabled \in BOOLEAN
  /\ RagIdle /\ AskIdle

NextCache ==
  \/ \E k \in Keys, err \in Errs : cache_get(k, err)
  \/ \E k \in Keys, v \in Values, err \in Errs : cache_set(k, v, err)
  \/ \E k \in Keys, err \in Errs : cache_delete(k, err)
  \/ \E p \in SamplePatterns, err \in Errs : cache_delete_pattern(p, err)
  \/ \E downs \in SUBSET (1..Len(WorkspacePatterns(Workspace))) :
       cache_invalidate_workspace(Workspace, downs)
  \/ \E d \in Docs : \E downs \in SUBSET (1..Len(DocumentPatterns(d, Workspace))) :
       cache_invalidate_document(d, Workspace, downs)
  \/ \E k \in Keys, fv \in Values, e1 \in Errs, e2 \in Errs : cache_get_or_set(k, fv, e1, e2)

SpecCache == InitCache /\ [][NextCache]_vars

\* the store was unreachable for the whole of the last call
Unreachable == cOp # <<"none">> /\ (~cacheEnabled \/ cStoreDown)

\* C8: with the store unreachable every CacheService operation returns without raising:
\* get returns absent, set stores nothing, delete / delete_pattern remove nothing and
\* report False / 0, the invalidate_* helpers complete, get_or_set returns f()
C8_FailOpen ==
  Unreachable =>
    /\ ~cRaised
    /\ cache = cBefore
    /\ cOp = <<"get">> => cRet = None
    /\ cOp = <<"set">> => cRet = Some(FALSE)
    /\ cOp = <<"delete">> => cRet = Some(FALSE)
    /\ cOp = <<"delete_pattern">> => cRet = Some(0)
    /\ cOp \in {<<"invalidate_workspace">>, <<"invalidate_document">>} => cRet = None
    /\ \A fv \in Values : cOp = <<"get_or_set", fv>> => cRet = Some(fv)

\* C8 witness: the store is enabled and holds an entry, and a delete on it met a store error
C8_Witness ==
  /\ cacheEnabled /\ cStoreDown /\ cOp = <<"delete">>
  /\ \E k \in Keys : cache[k] # None

(***************************************************************************)
(* RAG pipeline: answer text                                               *)
(*                                                                         *)
(* A text is a sequence of tokens: "Source" is that word in any letter     *)
(* case (the patterns are IGNORECASE), " " a space or tab, "\n" a newline, *)
(* "[" and "]" the brackets, and a digit is itself.                        *)
(***************************************************************************)
DigitChars == <<"0", "1", "2", "3", "4", "5", "6", "7", "8", "9">>
Digits == {DigitChars[i] : i \in 1..10}
Blank == {" "}                     \* [ \t]
Space == {" ", "\n"}               \* \s
WordTokens == {"Source"} \cup Digits  \* tokens made of \w characters

\* str(n) for n >= 0
RECURSIVE Str(_)
Str(n) == IF n < 10 THEN <<DigitChars[n + 1]>>
          ELSE Str(n \div 10) \o <<DigitChars[(n % 10) + 1]>>

DigitValue(c) == (CHOOSE i \in 1..10 : DigitChars[i] = c) - 1

\* the number a run of digits denotes
RECURSIVE RefNumber(_)
RefNumber(ds) == IF ds = <<>> THEN 0
           ELSE RefNumber(SubSeq(ds, 1, Len(ds) - 1)) * 10 + DigitValue(ds[Len(ds)])

\* token at position i, "" before the start and after the end
At(s, i) == IF i \in 1..Len(s) THEN s[i] ELSE ""

\* length of the longest run of tokens of T that starts at i (greedy T+ / T*)
Run(s, i, T) ==
  IF i > Len(s) THEN 0
  ELSE LET stops == {j \in i..(Len(s) + 1) : At(s, j) \notin T}
       IN (CHOOSE j \in stops : \A k \in stops : j <= k) - i

\* \b between positions i-1 and i
Boundary(s, i) == (At(s, i - 1) \in WordTokens) # (At(s, i) \in WordTokens)

NoMatch == [len |-> 0, ref |-> <<>>]

\* r'\[Source\s+(\d+)\]' tried at position i
MatchBracketed(s, i) ==
  IF At(s, i) = "[" /\ At(s, i + 1) = "Source"
  THEN LET sp == Run(s, i + 2, Space)
           dg == Run(s, i + 2 + sp, Digits)
       IN IF sp >= 1 /\ dg >= 1 /\ At(s, i + 2 + sp + dg) = "]"
          THEN [len |-> 3 + sp + dg, ref |-> SubSeq(s, i + 2 + sp, i + 1 + sp + dg)]
          ELSE NoMatch
  ELSE NoMatch

\* r'\bSource\s+(\d+)\b' tried at position i
MatchUnbracketed(s, i) ==
  IF At(s, i) = "Source" /\ Boundary(s, i)
  THEN LET sp == Run(s, i + 1, Space)
           dg == Run(s, i + 1 + sp, Digits)
       IN IF sp >= 1 /\ dg >= 1 /\ Boundary(s, i + 1 + sp + dg)
          THEN [len |-> 1 + sp + dg, ref |-> SubSeq(s, i + 1 + sp, i + sp + dg)]
          ELSE NoMatch
  ELSE NoMatch

\* re.findall of the two patterns: the set of numbers referred to
SourceRefsBracketed(s) ==
  {MatchBracketed(s, i).ref : i \in {j \in 1..Len(s) : MatchBracketed(s, j).len > 0}}
SourceRefsUnbracketed(s) ==
  {MatchUnbracketed(s, i).ref : i \in {j \in 1..Len(s) : MatchUnbracketed(s, j).len > 0}}
AllSourceRefs(s) == SourceRefsBracketed(s) \cup SourceRefsUnbracketed(s)

\* re.sub(rf'\[Source\s+{ref}\]', '', s), scanning from position i
RECURSIVE SubBracketedRef(_, _, _)
SubBracketedRef(s, ref, i) ==
  IF i > Len(s) THEN <<>>
  ELSE LET m == MatchBracketed(s, i)
       IN IF m.len > 0 /\ m.ref = ref THEN SubBracketedRef(s, ref, i + m.len)
          ELSE <<s[i]>> \o SubBracketedRef(s, ref, i + 1)

\* re.sub(rf'\bSource\s+{ref}\b', '', s), scanning from position i
RECURSIVE SubUnbracketedRef(_, _, _)
SubUnbracketedRef(s, ref, i) ==
  IF i > Len(s) THEN <<>>
  ELSE LET m == MatchUnbracketed(s, i)
       IN IF m.len > 0 /\ m.ref = ref THEN SubUnbracketedRef(s, ref, i + m.len)
          ELSE <<s[i]>> \o SubUnbracketedRef(s, ref, i + 1)

\* the loop over all_source_refs, visiting the invalid ones in the given order
RECURSIVE RemoveInvalidRefs(_, _)
RemoveInvalidRefs(s, order) ==
  IF order = <<>> THEN s
  ELSE RemoveInvalidRefs(
         SubUnbracketedRef(SubBracketedRef(s, Head(order), 1), Head(order), 1),
         Tail(order))

\* re.sub(r'[ \t]+', ' ', s)
RECURSIVE CollapseBlanks(_, _)
CollapseBlanks(s, i) ==
  IF i > Len(s) THEN <<>>
  ELSE IF s[i] \in Blank THEN <<" ">> \o CollapseBlanks(s, i + Run(s, i, Blank))
  ELSE <<s[i]>> \o CollapseBlanks(s, i + 1)

\* re.sub(r'[ \t]*\[Source', ' [Source', s)
RECURSIVE FixCitationSpacing(_, _)
FixCitationSpacing(s, i) ==
  IF i > Len(s) THEN <<>>
  ELSE LET b == Run(s, i, Blank)
       IN IF At(s, i + b) = "[" /\ At(s, i + b + 1) = "Source"
          THEN <<" ", "[", "Source">> \o FixCitationSpacing(s, i + b + 2)
          ELSE <<s[i]>> \o FixCitationSpacing(s, i + 1)

\* re.sub(r'\s+Source\s+(\d+)', r' [Source \1]', s)
RECURSIVE BracketStandalone(_, _)
BracketStandalone(s, i) ==
  IF i > Len(s) THEN <<>>
  ELSE LET s1 == Run(s, i, Space)
           s2 == Run(s, i + s1 + 1, Space)
           dg == Run(s, i + s1 + 1 + s2, Digits)
       IN IF s1 >= 1 /\ At(s, i + s1) = "Source" /\ s2 >= 1 /\ dg >= 1
          THEN <<" ", "[", "Source", " ">>
                 \o SubSeq(s, i + s1 + 1 + s2, i + s1 + s2 + dg) \o <<"]">>
                 \o BracketStandalone(s, i + s1 + 1 + s2 + dg)
          ELSE <<s[i]>> \o BracketStandalone(s, i + 1)

\* re.sub(r'\n\s*\n', '\n\n', s): \s* is greedy, so the match ends at the last
\* newline of the whitespace run
RECURSIVE ParagraphBreaks(_, _)
ParagraphBreaks(s, i) ==
  IF i > Len(s) THEN <<>>
  ELSE LET r == Run(s, i + 1, Space)
           nls == {j \in (i + 1)..(i + r) : s[j] = "\n"}
       IN IF s[i] = "\n" /\ nls # {}
          THEN <<"\n", "\n">>
                 \o ParagraphBreaks(s, (CHOOSE j \in nls : \A k \in nls : k <= j) + 1)
          ELSE <<s[i]>> \o ParagraphBreaks(s, i + 1)

\* str.strip()
Strip(s) ==
  LET keep == {j \in 1..Len(s) : s[j] \notin Space}
  IN IF keep = {} THEN <<>>
     ELSE SubSeq(s, CHOOSE j \in keep : \A k \in keep : j <= k,
                    CHOOSE j \in keep : \A k \in keep : k <= j)

\* the formatting passes applied after the invalid references are removed
CleanUpFormatting(s) ==
  Strip(ParagraphBreaks(BracketStandalone(FixCitationSpacing(CollapseBlanks(s, 1), 1), 1), 1))

(***************************************************************************)
(* RAG pipeline: retrieve node and generate node                           *)
(*                                                                         *)
(* Distances and similarities are in tenths: distance 13 is 1.3 and        *)
(* similarity -3 is -0.3.                                                  *)
(***************************************************************************)
MIN_SIMILARITY_THRESHOLD == -3
MIN_CITATION_SIMILARITY == -3
TopRetrieved == 5
TopCitations == 3

Min(a, b) == IF a <= b THEN a ELSE b

\* the document a stored chunk belongs to
DocumentOfChunk(i) == IF i % 2 = 1 THEN "d1" ELSE "d2"

\* one formatted result of VectorStore.search: similarity = 1 - distance
FormatResult(i, distance) ==
  [chunk_id |-> i, document_id |-> DocumentOfChunk(i), score |-> 10 - distance]

\* sorted(xs, key=score, reverse=True): stable, equal scores keep their order
RECURSIVE SortByScoreDesc(_)
SortByScoreDesc(xs) ==
  IF xs = <<>> THEN <<>>
  ELSE LET rest == SortByScoreDesc(SubSeq(xs, 1, Len(xs) - 1))
           x == xs[Len(xs)]
           n == Cardinality({j \in 1..Len(rest) : rest[j].score >= x.score})
       IN SubSeq(rest, 1, n) \o <<x>> \o SubSeq(rest, n + 1, Len(rest))

\* sorted(set(xs)) for a list of integers
RECURSIVE SortedSet(_)
SortedSet(S) ==
  IF S = {} THEN <<>>
  ELSE LET m == CHOOSE x \in S : \A y \in S : x <= y
       IN <<m>> \o SortedSet(S \ {m})

Range(f) == {f[i] : i \in DOMAIN f}

SelectChunks(xs, ids) ==
  LET Keep(r) == r.document_id \in ids IN SelectSeq(xs, Keep)

\* variant: a hit on the threshold is kept
AboveThresholdInclusive(xs) ==
  LET Keep(r) == r.score >= MIN_SIMILARITY_THRESHOLD IN SelectSeq(xs, Keep)

AboveThreshold(xs) ==
  LET Keep(r) == r.score > MIN_SIMILARITY_THRESHOLD IN SelectSeq(xs, Keep)

Questions == {"hi", "What are the termination terms?"}
SimpleGreetings == {"hi", "hello", "hey", "greetings", "good morning", "good afternoon",
                    "good evening"}
\* document_ids of the request: None, or the documents to search
DocumentIdFilters == {None, Some({"d1"})}

\* rag_pipeline.py 176: if document_ids (None and the empty list are both falsy)
Truthy(ids) == ids # None /\ ids[1] # {}

\* rag_pipeline.py 138-203; results is what VectorStore.search returns for q
retrieve_node(q, ids) ==
  /\ gpc = "start"
  /\ gpc' = "retrieved"
  /\ question' = q /\ document_ids' = ids
  /\ IF q \in SimpleGreetings
     THEN retrieved_chunks' = <<>> /\ UNCHANGED searchCalls
     ELSE LET found == IF Truthy(ids) THEN SelectChunks(results, ids[1])
                       ELSE results
              filtered == AboveThreshold(found)
              ranked == IF filtered = <<>> THEN SortByScoreDesc(found)
                        ELSE SortByScoreDesc(filtered)
          IN /\ retrieved_chunks' = SubSeq(ranked, 1, Min(TopRetrieved, Len(ranked)))
             /\ searchCalls' = searchCalls + 1
  /\ error' = "None"
  /\ UNCHANGED <<results, structured_answer, answer, citations, classifierCalls, structuredCalls,
                 docVars, cacheVars, callVars, askVars, wsVars, unitVars>>

Classifications == {"greeting", "off_topic", "needs_context", "exception"}

\* variant: a failed classification call is not caught in place
generate_node_no_chunks_uncaught(classification) ==
  /\ gpc = "retrieved" /\ retrieved_chunks = <<>>
  /\ gpc' = "generated"
  /\ answer' = CASE classification = "greeting" -> <<"Hello! I'm here to help">>
                 [] classification = "off_topic" -> <<"I'm specialized in helping">>
                 [] classification = "exception" -> <<"Error generating answer: ">>
                 [] OTHER -> <<"I couldn't find any relevant information">>
  /\ citations' = <<>>
  /\ error' = IF classification \in {"greeting", "off_topic"} THEN "None"
              ELSE "No relevant chunks found"
  /\ classifierCalls' = classifierCalls + 1
  /\ UNCHANGED <<results, structured_answer, retrieved_chunks,
                 question, document_ids, searchCalls, structuredCalls,
                 docVars, cacheVars, callVars, askVars, wsVars, unitVars>>

generate_node_no_chunks(classification) ==
  /\ gpc = "retrieved" /\ retrieved_chunks = <<>>
  /\ gpc' = "generated"
  /\ answer' = CASE classification = "greeting" -> <<"Hello! I'm here to help">>
                 [] classification = "off_topic" -> <<"I'm specialized in helping">>
                 [] OTHER -> <<"I couldn't find any relevant information">>
  /\ citations' = <<>>
  /\ error' = IF classification \in {"greeting", "off_topic"} THEN "None"
              ELSE "No relevant chunks found"
  /\ classifierCalls' = classifierCalls + 1
  /\ UNCHANGED <<results, structured_answer, retrieved_chunks,
                 question, document_ids, searchCalls, structuredCalls,
                 docVars, cacheVars, callVars, askVars, wsVars, unitVars>>

\* Citation(...) built from one retrieved chunk
Citation(chunk) ==
  [document_id |-> chunk.document_id, chunk_id |-> chunk.chunk_id,
   similarity_score |-> chunk.score]

CitationsData(chunks) == [i \in 1..Len(chunks) |-> Citation(chunks[i])]

\* StructuredAnswer.validate_cited_sources
ValidateCitedSources(v) == \A i \in 1..Len(v) : v[i] >= 1

\* cited_sources restricted to the sources that exist, or 1..3 when none is left
ValidCitedSources(cited_sources, n) ==
  LET Valid(s) == s \in 1..n
      valid == SelectSeq(cited_sources, Valid)
  IN IF valid = <<>> THEN [i \in 1..Min(TopCitations, n) |-> i] ELSE valid

CitationSimilarEnoughInclusive(score) == score >= MIN_CITATION_SIMILARITY
CitationSimilarEnough(score) == score > MIN_CITATION_SIMILARITY

UsedCitations(citations_data, valid_cited_sources) ==
  LET nums == SortedSet(Range(valid_cited_sources))
      Keep(k) == /\ 0 <= k - 1 /\ k - 1 < Len(citations_data)
                 /\ CitationSimilarEnough(citations_data[k].similarity_score)
      kept == SelectSeq(nums, Keep)
      used == [i \in 1..Len(kept) |-> citations_data[kept[i]]]
      sorted_citations ==
        LET byScore == SortByScoreDesc(
              [i \in 1..Len(citations_data) |->
                 [score |-> citations_data[i].similarity_score, c |-> citations_data[i]]])
        IN [i \in 1..Len(byScore) |-> byScore[i].c]
  IN IF used = <<>>
     THEN SubSeq(sorted_citations, 1, Min(TopCitations, Len(sorted_citations)))
     ELSE used

\* the source numbers the answer text refers to that are not cited
InvalidRefs(text, valid_cited_sources) ==
  AllSourceRefs(text) \ {Str(valid_cited_sources[i]) : i \in 1..Len(valid_cited_sources)}

\* the orders in which a set can be iterated
Orders(S) == {f \in [1..Cardinality(S) -> S] : \A i, j \in DOMAIN f : f[i] = f[j] => i = j}

generate_node ==
  /\ gpc = "retrieved" /\ retrieved_chunks # <<>>
  /\ ValidateCitedSources(structured_answer.cited_sources)
  /\ LET citations_data == CitationsData(retrieved_chunks)
         valid_cited_sources ==
           ValidCitedSources(structured_answer.cited_sources, Len(citations_data))
     IN /\ citations' = UsedCitations(citations_data, valid_cited_sources)
        /\ \E order \in Orders(InvalidRefs(structured_answer.answer, valid_cited_sources)) :
             LET cleaned_answer ==
                   CleanUpFormatting(RemoveInvalidRefs(structured_answer.answer, order))
             IN answer' = IF cleaned_answer # <<>> THEN cleaned_answer
                          ELSE structured_answer.answer
  /\ gpc' = "generated"
  /\ error' = "None"
  /\ structuredCalls' = structuredCalls + 1
  /\ UNCHANGED <<results, structured_answer, retrieved_chunks,
                 question, document_ids, searchCalls, classifierCalls,
                 docVars, cacheVars, callVars, askVars, wsVars, unitVars>>

\* the chat completion, or the validation of its reply, raised
generate_node_failed ==
  /\ gpc = "retrieved" /\ retrieved_chunks # <<>>
  /\ gpc' = "generated"
  /\ answer' = <<"Error generating answer: ">>
  /\ citations' = <<>>
  /\ error' = "exception"
  /\ structuredCalls' = structuredCalls + 1
  /\ UNCHANGED <<results, structured_answer, retrieved_chunks,
                 question, document_ids, searchCalls, classifierCalls,
                 docVars, cacheVars, callVars, askVars, wsVars, unitVars>>

NextRag ==
  \/ \E q \in Questions, ids \in DocumentIdFilters : retrieve_node(q, ids)
  \/ \E c \in Classifications : generate_node_no_chunks(c)
  \/ generate_node
  \/ generate_node_failed

\* ---- inputs ----
SeqsUpTo(S, n) == UNION {[1..k -> S] : k \in 0..n}

\* search results: nearest first, as the collection returns them
SearchResults(dists, n) ==
  {[i \in 1..Len(ds) |-> FormatResult(i, ds[i])] :
     ds \in {s \in SeqsUpTo(dists, n) : \A i \in 1..(Len(s) - 1) : s[i] <= s[i + 1]}}

Distances == {10, 13, 15}
MaxResults == 6
MaxCitedNum == 6
MaxCitedLen == 2
CiteAnswers == {<<"Source", " ", "1">>}

InitCite ==
  /\ DocumentsIdle /\ cacheEnabled = TRUE /\ AskIdle
  /\ gpc = "start"
  /\ results \in SearchResults(Distances, MaxResults)
  /\ structured_answer \in [answer : CiteAnswers,
                            cited_sources : SeqsUpTo(0..MaxCitedNum, MaxCitedLen)]
  /\ retrieved_chunks = <<>> /\ answer = <<>> /\ citations = <<>> /\ error = "None"
  /\ NoRagCall

SpecCite == InitCite /\ [][NextRag]_vars

Alphabet == {"Source", " ", "\n", "[", "]", "2", "5"}
MaxAnswerLen == 4
MaxTextResults == 2
MaxTextCitedLen == 1
TextDistances == {10}
TextCitedNums == {1, 2, 5}
\* longer replies: "[Source 5]", "[Source 2] [Source 5]", "Source 2 Source 5",
\* "Source [Source 5] 2", "Source 5 Source 52"
SampleAnswers ==
  { <<"[", "Source", " ", "5", "]">>,
    <<"[", "Source", " ", "2", "]", " ", "[", "Source", " ", "5", "]">>,
    <<"Source", " ", "2", " ", "Source", " ", "5">>,
    <<"Source", " ", "[", "Source", " ", "5", "]", " ", "2">>,
    <<"Source", " ", "5", " ", "Source", " ", "5", "2">> }

InitText ==
  /\ DocumentsIdle /\ cacheEnabled = TRUE /\ AskIdle
  /\ gpc = "start"
  /\ results \in SearchResults(TextDistances, MaxTextResults)
  /\ structured_answer \in [answer : SeqsUpTo(Alphabet, MaxAnswerLen) \cup SampleAnswers,
                            cited_sources : SeqsUpTo(TextCitedNums, MaxTextCitedLen)]
  /\ retrieved_chunks = <<>> /\ answer = <<>> /\ citations = <<>> /\ error = "None"
  /\ NoRagCall

SpecText == InitText /\ [][NextRag]_vars

\* the generate node returned an answer built from the model's structured reply
Answered == gpc = "generated" /\ retrieved_chunks # <<>> /\ error = "None"

\* C4: whenever the generate node answers from N >= 1 retrieved chunks, every number
\* the returned text refers to as "[Source k]" or "Source k" lies in 1..N, and every
\* returned citation is the citation of one of the N chunks.
C4_CitationValidity ==
  Answered =>
    /\ \A ref \in AllSourceRefs(answer) : RefNumber(ref) \in 1..Len(retrieved_chunks)
    /\ \A i \in 1..Len(citations) :
         \E k \in 1..Len(retrieved_chunks) : citations[i] = Citation(retrieved_chunks[k])

\* the set V of the claim: the cited numbers that exist, or 1..min(3, N) when none does
CitedSet ==
  LET n == Len(retrieved_chunks)
      cited == Range(structured_answer.cited_sources) \cap (1..n)
  IN IF cited # {} THEN cited ELSE 1..Min(3, n)

\* the k-th smallest element of a set of numbers
Kth(S, k) == CHOOSE x \in S : Cardinality({y \in S : y < x}) = k - 1

\* the hits at the numbers of S, in increasing order of number
HitsAt(S) == [i \in 1..Cardinality(S) |-> Citation(retrieved_chunks[Kth(S, i)])]

MaxAsks == 3

ConversationMessage(index, role, content) ==
  [message_index |-> index, role |-> role, content |-> content]

\* the conversation is found; the query for existing messages and
\* next_index = len(existing_messages)
ask_question_read(a) ==
  /\ apc[a] = "idle" /\ asks < MaxAsks
  /\ conversationRow
  /\ asks' = asks + 1
  /\ next_index' = [next_index EXCEPT ![a] = Len(messages)]
  /\ apc' = [apc EXCEPT ![a] = "read"]
  /\ UNCHANGED <<messages, docVars, cacheVars, callVars, ragVars, wsVars, unitVars>>

\* the user message is added and committed
ask_question_store_user(a) ==
  /\ apc[a] = "read"
  /\ messages' = Append(messages, ConversationMessage(next_index[a], "user", "question"))
  /\ apc' = [apc EXCEPT ![a] = "asked"]
  /\ UNCHANGED <<next_index, asks, docVars, cacheVars, callVars, ragVars, wsVars, unitVars>>

\* that commit raises, outside the try block: the request ends with nothing stored
ask_question_store_user_failed(a) ==
  /\ apc[a] = "read"
  /\ apc' = [apc EXCEPT ![a] = "idle"]
  /\ UNCHANGED <<messages, next_index, asks, docVars, cacheVars, callVars, ragVars, wsVars, unitVars>>

\* rag_pipeline.ask returns; the assistant message is added and committed
ask_question_store_answer(a) ==
  /\ apc[a] = "asked"
  /\ messages' = Append(messages,
                        ConversationMessage(next_index[a] + 1, "assistant", "answer"))
  /\ apc' = [apc EXCEPT ![a] = "answered"]
  /\ UNCHANGED <<next_index, asks, docVars, cacheVars, callVars, ragVars, wsVars, unitVars>>

\* rag_pipeline.ask, or the commit of the assistant message, raises
ask_question_answer_failed(a) ==
  /\ apc[a] = "asked"
  /\ apc' = [apc EXCEPT ![a] = "failed"]
  /\ UNCHANGED <<messages, next_index, asks, docVars, cacheVars, callVars, ragVars, wsVars, unitVars>>

\* db.refresh and the response are built: the request returns
ask_question_respond(a) ==
  /\ apc[a] = "answered"
  /\ apc' = [apc EXCEPT ![a] = "idle"]
  /\ UNCHANGED <<messages, next_index, asks, docVars, cacheVars, callVars, ragVars, wsVars, unitVars>>

\* db.refresh, or building the response, raises after the commit, still inside the try
ask_question_respond_failed(a) ==
  /\ apc[a] = "answered"
  /\ apc' = [apc EXCEPT ![a] = "failed"]
  /\ UNCHANGED <<messages, next_index, asks, docVars, cacheVars, callVars, ragVars, wsVars, unitVars>>

\* the except branch: the apology is added at next_index + 1 and committed, then
\* ProcessingError is raised
ask_question_store_error(a) ==
  /\ apc[a] = "failed"
  /\ messages' = Append(messages,
                        ConversationMessage(next_index[a] + 1, "assistant", "apology"))
  /\ apc' = [apc EXCEPT ![a] = "idle"]
  /\ UNCHANGED <<next_index, asks, docVars, cacheVars, callVars, ragVars, wsVars, unitVars>>

\* the commit of the apology raises too: nothing more is stored
ask_question_store_error_failed(a) ==
  /\ apc[a] = "failed"
  /\ apc' = [apc EXCEPT ![a] = "idle"]
  /\ UNCHANGED <<messages, next_index, asks, docVars, cacheVars, callVars, ragVars, wsVars, unitVars>>

NoAskInFlight == \A a \in Askers : apc[a] = "idle"

InitAsk ==
  /\ DocumentsIdle /\ cacheEnabled = TRUE /\ RagIdle /\ AskIdle

\* requests served one after another
NextAsk ==
  \/ \E a \in Askers : NoAskInFlight /\ ask_question_read(a)
  \/ \E a \in Askers : ask_question_store_user(a)
  \/ \E a \in Askers : ask_question_store_user_failed(a)
  \/ \E a \in Askers : ask_question_store_answer(a)
  \/ \E a \in Askers : ask_question_answer_failed(a)
  \/ \E a \in Askers : ask_question_respond(a)
  \/ \E a \in Askers : ask_question_respond_failed(a)
  \/ \E a \in Askers : ask_question_store_error(a)
  \/ \E a \in Askers : ask_question_store_error_failed(a)

SpecAsk == InitAsk /\ [][NextAsk]_vars

\* requests served by concurrent workers
NextAsk2 ==
  \/ \E a \in Askers : ask_question_read(a)
  \/ \E a \in Askers : ask_question_store_user(a)
  \/ \E a \in Askers : ask_question_store_user_failed(a)
  \/ \E a \in Askers : ask_question_store_answer(a)
  \/ \E a \in Askers : ask_question_answer_failed(a)
  \/ \E a \in Askers : ask_question_respond(a)
  \/ \E a \in Askers : ask_question_respond_failed(a)
  \/ \E a \in Askers : ask_question_store_error(a)
  \/ \E a \in Askers : ask_question_store_error_failed(a)

SpecAsk2 == InitAsk /\ [][NextAsk2]_vars

\* the stored message_index values are exactly 0..n-1, each used once
DenseIndices(ms) ==
  /\ \A i, j \in 1..Len(ms) : ms[i].message_index = ms[j].message_index => i = j
  /\ {ms[i].message_index : i \in 1..Len(ms)} = 0..(Len(ms) - 1)

\* C9: with ask_question calls served one after another, whatever fails, every step
\* leaves the message_index values exactly 0..n-1 without duplicate, and leaves the
\* messages already stored as they were.
C9_DenseAppendOnly ==
  [][/\ DenseIndices(messages')
     /\ Len(messages) <= Len(messages')
     /\ SubSeq(messages', 1, Len(messages)) = messages]_vars

\* C10: with two ask_question calls interleaved, no two stored messages share a
\* message_index and the indices stay dense.
C10_ConcurrentAsksDense == DenseIndices(messages)

(***************************************************************************)
(* Claims on the ingest pipeline, continued                                *)
(***************************************************************************)
\* C11: no reader of the documents table and the collection ever sees a document in
\* status Processed with no entry in the collection, unless its file yielded no chunk.
C11_ProcessedHasEntries ==
  \A d \in Docs : (row[d] = "Processed" /\ wChunks[d]) => d \in vec

(***************************************************************************)
(* ClauseDeduplicator (clause_deduplicator.py)                             *)
(***************************************************************************)
\* ExtractedClause: the fields the deduplicator and extract_clauses read.
\* confidence_score is in hundredths; extracted_text and risk_reasoning are
\* sequences of characters.
ExtractedClause(ty, text, page, conf, risk, reasoning) ==
  [clause_type |-> ty, extracted_text |-> text, page_number |-> page,
   confidence_score |-> conf, risk_score |-> risk, risk_reasoning |-> reasoning]

Chars(n, c) == [i \in 1..n |-> c]

Abs(x) == IF x < 0 THEN -x ELSE x

\* the keys a clause is filed under, in the order the loop body inserts them
GroupKeysOf(c) ==
  << <<c.clause_type, c.page_number>> >>
  \o (IF c.page_number > 0 THEN << <<c.clause_type, c.page_number - 1>> >> ELSE <<>>)
  \o << <<c.clause_type, c.page_number + 1>> >>

RECURSIVE AppendNew(_, _)
\* dict insertion: a key keeps the position of its first insertion
AppendNew(keys, new) ==
  IF new = <<>> THEN keys
  ELSE AppendNew(IF Head(new) \in Range(keys) THEN keys ELSE Append(keys, Head(new)), Tail(new))

RECURSIVE GroupKeys(_, _, _)
GroupKeys(clauses, idx, keys) ==
  IF idx > Len(clauses) THEN keys
  ELSE GroupKeys(clauses, idx + 1, AppendNew(keys, GroupKeysOf(clauses[idx])))

RECURSIVE Ascending(_)
\* the members of a set of indices, ascending
Ascending(S) ==
  IF S = {} THEN <<>>
  ELSE LET m == CHOOSE x \in S : \A y \in S : x <= y IN <<m>> \o Ascending(S \ {m})

\* ClauseDeduplicator._group_clauses_for_comparison: list(groups.values())
_group_clauses_for_comparison(clauses) ==
  LET keys == GroupKeys(clauses, 1, <<>>)
  IN [g \in 1..Len(keys) |->
        Ascending({idx \in 1..Len(clauses) : keys[g] \in Range(GroupKeysOf(clauses[idx]))})]

\* variant: every pair that passes the quick checks counts as a duplicate
_are_clauses_duplicate_any(clause1, clause2, decisions) ==
  IF clause1.clause_type # clause2.clause_type THEN FALSE
  ELSE IF Abs(clause1.page_number - clause2.page_number) > 2 THEN FALSE
  ELSE TRUE

\* ClauseDeduplicator._are_clauses_duplicate: the quick checks, then the comparison
\* call, whose verdict on an ordered pair is given by decisions
_are_clauses_duplicate(clause1, clause2, decisions) ==
  IF clause1.clause_type # clause2.clause_type THEN FALSE
  ELSE IF Abs(clause1.page_number - clause2.page_number) > 2 THEN FALSE
  ELSE <<clause1, clause2>> \in decisions

\* ClauseDeduplicator._is_clause_better
_is_clause_better(clause1, clause2) ==
  LET has_reasoning1 == Strip(clause1.risk_reasoning) # <<>>
      has_reasoning2 == Strip(clause2.risk_reasoning) # <<>>
  IN IF Abs(clause1.confidence_score - clause2.confidence_score) > 5
       THEN clause1.confidence_score > clause2.confidence_score
     ELSE IF Abs(Len(clause1.extracted_text) - Len(clause2.extracted_text)) > 20
       THEN Len(clause1.extracted_text) > Len(clause2.extracted_text)
     ELSE IF has_reasoning1 # has_reasoning2 THEN has_reasoning1
     ELSE TRUE

RECURSIVE ComparePairs(_, _, _, _, _, _)
\* variant: the loop over j stops after the first discard, whichever clause it drops
NextPairBreaks(clauses, decisions, group, i, j, keep_indices) == keep_indices

\* after clause2 is discarded the loop over j goes on with the next j
NextPair(clauses, decisions, group, i, j, keep_indices) ==
  ComparePairs(clauses, decisions, group, i, j + 1, keep_indices)

\* the inner loop over j, from position j on, for clause group[i]
ComparePairs(clauses, decisions, group, i, j, keep_indices) ==
  IF j > Len(group) THEN keep_indices
  ELSE IF group[j] \notin keep_indices
    THEN ComparePairs(clauses, decisions, group, i, j + 1, keep_indices)
  ELSE IF _are_clauses_duplicate(clauses[group[i]], clauses[group[j]], decisions)
    THEN IF _is_clause_better(clauses[group[i]], clauses[group[j]])
           THEN NextPair(clauses, decisions, group, i, j, keep_indices \ {group[j]})
           ELSE keep_indices \ {group[i]}                             \* break
  ELSE ComparePairs(clauses, decisions, group, i, j + 1, keep_indices)

RECURSIVE CompareGroup(_, _, _, _, _)
\* the loop over i within one group
CompareGroup(clauses, decisions, group, i, keep_indices) ==
  IF i > Len(group) THEN keep_indices
  ELSE IF group[i] \notin keep_indices
    THEN CompareGroup(clauses, decisions, group, i + 1, keep_indices)
  ELSE CompareGroup(clauses, decisions, group, i + 1,
                    ComparePairs(clauses, decisions, group, i, i + 1, keep_indices))

RECURSIVE CompareGroups(_, _, _, _, _)
\* the loop over the groups
CompareGroups(clauses, decisions, groups, g, keep_indices) ==
  IF g > Len(groups) THEN keep_indices
  ELSE CompareGroups(clauses, decisions, groups, g + 1,
                     IF Len(groups[g]) <= 1 THEN keep_indices
                     ELSE CompareGroup(clauses, decisions, groups[g], 1, keep_indices))

\* ClauseDeduplicator.deduplicate_clauses
deduplicate_clauses(clauses, decisions) ==
  IF Len(clauses) <= 1 THEN clauses
  ELSE LET keep_indices == CompareGroups(clauses, decisions,
                                         _group_clauses_for_comparison(clauses), 1,
                                         1..Len(clauses))
           kept == Ascending(keep_indices)
       IN [k \in 1..Len(kept) |-> clauses[kept[k]]]

\* one deduplicator run on the extracted list, then one on what it returned,
\* the comparison call answering alike on the same ordered pair
dedup_first ==
  /\ dedupPc = "start"
  /\ dedupOut1' = deduplicate_clauses(dedupIn, dedupDecisions)
  /\ dedupPc' = "once"
  /\ UNCHANGED <<dedupIn, dedupDecisions, dedupOut2>>
  /\ UNCHANGED <<docVars, cacheVars, callVars, pipelineVars, wsVars, errVars, pageVars, extVars>>

dedup_second ==
  /\ dedupPc = "once"
  /\ dedupOut2' = deduplicate_clauses(dedupOut1, dedupDecisions)
  /\ dedupPc' = "twice"
  /\ UNCHANGED <<dedupIn, dedupDecisions, dedupOut1>>
  /\ UNCHANGED <<docVars, cacheVars, callVars, pipelineVars, wsVars, errVars, pageVars, extVars>>

MaxDedupLen == 3
DedupPages == {0, 1, 3}
\* one clause per way _is_clause_better can rank a pair (confidence, text
\* length, reasoning present), on each page, and a clause of another type
DedupQualities == {<<90, 12, 1>>, <<80, 34, 1>>, <<80, 12, 0>>, <<80, 12, 1>>}
DedupClauses ==
  {ExtractedClause("Payment", Chars(q[2], "a"), p, q[1], 30, Chars(q[3], "r")) :
     q \in DedupQualities, p \in DedupPages}
  \cup {ExtractedClause("Termination", Chars(12, "a"), 1, 80, 30, <<"r">>)}

InitDedup ==
  /\ WorkspaceIdle /\ TablesIdle /\ ErrIdle /\ PageIdle /\ ExtIdle /\ cacheEnabled = TRUE /\ RagIdle /\ AskIdle
  /\ dedupIn \in SeqsUpTo(DedupClauses, MaxDedupLen)
  /\ dedupDecisions \in SUBSET {<<dedupIn[p[1]], dedupIn[p[2]]>> :
                                 p \in {q \in (1..Len(dedupIn)) \X (1..Len(dedupIn)) : q[1] # q[2]}}
  /\ dedupOut1 = <<>> /\ dedupOut2 = <<>> /\ dedupPc = "start"

NextDedup == dedup_first \/ dedup_second

SpecDedup == InitDedup /\ [][NextDedup]_vars

\* C16: the deduplicator applied to the list it returned gives that list back, in
\* the same order, when the comparison call answers alike on the same ordered pair.
C16_DedupIdempotent == dedupPc = "twice" => dedupOut2 = dedupOut1

\* a second run on a list of two or more clauses that the first run had shortened
C16_Witness ==
  /\ dedupPc = "twice" /\ Len(dedupOut1) < Len(dedupIn) /\ Len(dedupOut1) >= 2
  /\ dedupOut2 = dedupOut1

(***************************************************************************)
(* extract_clauses (clauses.py)                                            *)
(***************************************************************************)
MaxExtracts == 2

\* a row of the clauses table
Clause(id, document_id, c) ==
  [id |-> id, document_id |-> document_id, clause_type |-> c.clause_type,
   extracted_text |-> c.extracted_text, page_number |-> c.page_number,
   confidence_score |-> c.confidence_score, risk_score |-> c.risk_score,
   risk_reasoning |-> c.risk_reasoning]

\* ClauseExtractionResponse / HTTPException as the client sees it
ClauseExtractionResponse(rows) == Some([code |-> 200, clauses |-> rows])
ExtractError(code) == Some([code |-> code, clauses |-> {}])

\* variant: the length test is made on the untrimmed text
TextLongEnoughUntrimmed(text) == Len(text) >= 10

\* clauses.py 133: not (not text or len(text.strip()) < 10)
TextLongEnough(text) == text # <<>> /\ Len(Strip(text)) >= 10

\* clauses.py 137-140
ClampRisk(risk_score) == IF risk_score < 0 THEN 0
                         ELSE IF risk_score > 100 THEN 100
                         ELSE risk_score

\* clauses.py 143-152: the sentence of the band the score falls in
FallbackReasoning(risk_score) ==
  IF risk_score >= 75
    THEN <<"Critical risk (score: ">> \o Str(risk_score) \o <<") - This clause requires immediate attention and negotiation.">>
  ELSE IF risk_score >= 50
    THEN <<"High risk (score: ">> \o Str(risk_score) \o <<") - Significant concerns identified. Review and negotiation recommended.">>
  ELSE IF risk_score >= 25
    THEN <<"Medium risk (score: ">> \o Str(risk_score) \o <<") - Some concerns identified. Review recommended.">>
  ELSE <<"Low risk (score: ">> \o Str(risk_score) \o <<") - Standard or acceptable clause terms.">>

\* clauses.py 136-154: what one kept clause is turned into
ValidatedClause(c) ==
  LET risk == ClampRisk(c.risk_score)
  IN [c EXCEPT !.risk_score = risk,
               !.risk_reasoning = IF c.risk_reasoning = <<>> \/ Strip(c.risk_reasoning) = <<>>
                                  THEN FallbackReasoning(risk) ELSE c.risk_reasoning]

RECURSIVE ValidateClauses(_)
\* clauses.py 130-157: the validation loop
ValidateClauses(extracted_clauses) ==
  IF extracted_clauses = <<>> THEN <<>>
  ELSE LET clause == Head(extracted_clauses)
       IN (IF TextLongEnough(clause.extracted_text) THEN <<ValidatedClause(clause)>> ELSE <<>>)
          \o ValidateClauses(Tail(extracted_clauses))

\* the verdict sets the comparison call can give on a list
VerdictSets(clauses) ==
  SUBSET {<<clauses[p[1]], clauses[p[2]]>> :
            p \in {q \in (1..Len(clauses)) \X (1..Len(clauses)) : q[1] # q[2]}}

\* variant: the forced re-extract leaves the stored clauses in place
KeepExisting(rows) == rows

\* clauses.py 90-92: db.query(Clause).filter(...).delete(); db.commit()
DeleteExisting(rows) == {}

\* clauses.py 54-87: load the document and its workspace (404), require status
\* PROCESSED (400), count the stored clauses and return them when there are
\* some and force_re_extract is not set
extract_clauses_load(d, force) ==
  /\ epc[d] = "idle" /\ eGen < MaxExtracts
  /\ eGen' = eGen + 1
  /\ eForce' = [eForce EXCEPT ![d] = force]
  /\ eOld' = [eOld EXCEPT ![d] = clauseRows[d]]
  /\ eNew' = [eNew EXCEPT ![d] = {}]
  /\ eRace' = eRace \ {d}
  /\ IF ~RowExists(d) \/ ~workspaceRow
       THEN /\ eResp' = [eResp EXCEPT ![d] = ExtractError(404)]
            /\ epc' = [epc EXCEPT ![d] = "done"]
     ELSE IF row[d] # "Processed"
       THEN /\ eResp' = [eResp EXCEPT ![d] = ExtractError(400)]
            /\ epc' = [epc EXCEPT ![d] = "done"]
     ELSE IF clauseRows[d] # {} /\ ~force
       THEN /\ eResp' = [eResp EXCEPT ![d] = ClauseExtractionResponse(clauseRows[d])]
            /\ epc' = [epc EXCEPT ![d] = "done"]
     ELSE /\ eResp' = [eResp EXCEPT ![d] = None]
          /\ epc' = [epc EXCEPT ![d] = IF clauseRows[d] # {} THEN "deleting" ELSE "cleared"]
  /\ UNCHANGED <<clauseRows, workspaceRow, conversationRow, xpc>>
  /\ UNCHANGED <<docVars, cacheVars, callVars, pipelineVars, unitVars>>

\* clauses.py 90-92: the stored clauses are deleted and the deletion committed
extract_clauses_delete_existing(d) ==
  /\ epc[d] = "deleting"
  /\ clauseRows' = [clauseRows EXCEPT ![d] = DeleteExisting(clauseRows[d])]
  /\ epc' = [epc EXCEPT ![d] = "cleared"]
  /\ UNCHANGED <<eForce, eNew, eResp, eGen, eOld, eRace, workspaceRow, conversationRow, xpc>>
  /\ UNCHANGED <<docVars, cacheVars, callVars, pipelineVars, unitVars>>

\* clauses.py 95-106: collection.get(where document_id); 404 when it holds no chunk
extract_clauses_get_chunks(d) ==
  /\ epc[d] = "cleared"
  /\ IF d \in vec
       THEN /\ epc' = [epc EXCEPT ![d] = "chunks"]
            /\ UNCHANGED eResp
       ELSE /\ epc' = [epc EXCEPT ![d] = "done"]
            /\ eResp' = [eResp EXCEPT ![d] = ExtractError(404)]
  /\ UNCHANGED <<clauseRows, eForce, eNew, eGen, eOld, eRace, workspaceRow, conversationRow, xpc>>
  /\ UNCHANGED <<docVars, cacheVars, callVars, pipelineVars, unitVars>>

\* clauses.py 121-176: the extractor returns one of outputs (the empty list when
\* its call fails, clause_extractor.py 187-189), the deduplicator and the
\* validation loop run, and a Clause row is added to the session for each
\* clause kept
extract_clauses_extract(d, outputs) ==
  /\ epc[d] = "chunks"
  /\ \E extracted \in outputs :
       \E decisions \in VerdictSets(extracted) :
         LET kept == ValidateClauses(deduplicate_clauses(extracted, decisions))
         IN eNew' = [eNew EXCEPT ![d] = {Clause(<<eGen, k>>, d, kept[k]) : k \in 1..Len(kept)}]
  /\ epc' = [epc EXCEPT ![d] = "added"]
  /\ UNCHANGED <<clauseRows, eForce, eResp, eGen, eOld, eRace, workspaceRow, conversationRow, xpc>>
  /\ UNCHANGED <<docVars, cacheVars, callVars, pipelineVars, unitVars>>

\* clauses.py 121-176: the extractor, the deduplicator or the construction of a
\* row raises; nothing catches it in the endpoint, the session is closed without
\* a commit and the request ends in a 500
extract_clauses_extract_raised(d) ==
  /\ epc[d] = "chunks"
  /\ epc' = [epc EXCEPT ![d] = "done"]
  /\ eNew' = [eNew EXCEPT ![d] = {}]
  /\ eResp' = [eResp EXCEPT ![d] = ExtractError(500)]
  /\ UNCHANGED <<clauseRows, eForce, eGen, eOld, eRace, workspaceRow, conversationRow, xpc>>
  /\ UNCHANGED <<docVars, cacheVars, callVars, pipelineVars, unitVars>>

\* clauses.py 179-186: the document is queried again; when it is gone the session
\* is rolled back and the response is 410
extract_clauses_revalidate(d) ==
  /\ epc[d] = "added"
  /\ IF RowExists(d)
       THEN /\ epc' = [epc EXCEPT ![d] = "validated"]
            /\ UNCHANGED <<eNew, eResp>>
       ELSE /\ epc' = [epc EXCEPT ![d] = "done"]
            /\ eNew' = [eNew EXCEPT ![d] = {}]
            /\ eResp' = [eResp EXCEPT ![d] = ExtractError(410)]
  /\ UNCHANGED <<clauseRows, eForce, eGen, eOld, eRace, workspaceRow, conversationRow, xpc>>
  /\ UNCHANGED <<docVars, cacheVars, callVars, pipelineVars, unitVars>>

\* clauses.py 189: db.commit() inserts the rows; clauses.document_id is a foreign
\* key to documents.id (models/clause.py 17-18), so the insert is refused and
\* the request ends in a 500 when the document row is gone
extract_clauses_commit(d) ==
  /\ epc[d] = "validated"
  /\ IF RowExists(d)
       THEN /\ clauseRows' = [clauseRows EXCEPT ![d] = clauseRows[d] \cup eNew[d]]
            /\ epc' = [epc EXCEPT ![d] = "committed"]
            /\ UNCHANGED <<eNew, eResp>>
       ELSE /\ epc' = [epc EXCEPT ![d] = "done"]
            /\ eNew' = [eNew EXCEPT ![d] = {}]
            /\ eResp' = [eResp EXCEPT ![d] = ExtractError(500)]
            /\ UNCHANGED clauseRows
  /\ UNCHANGED <<eForce, eGen, eOld, eRace, workspaceRow, conversationRow, xpc>>
  /\ UNCHANGED <<docVars, cacheVars, callVars, pipelineVars, unitVars>>

\* clauses.py 192-228: refresh every row (a row deleted meanwhile cannot be
\* refreshed: 500), invalidate the document's cache entries, respond
extract_clauses_respond(d) ==
  /\ epc[d] = "committed"
  /\ IF eNew[d] \subseteq clauseRows[d]
       THEN /\ cache' = InvalidateDocument(cacheEnabled, NoDowns, cache, d, Workspace)
            /\ eResp' = [eResp EXCEPT ![d] = ClauseExtractionResponse(eNew[d])]
       ELSE /\ eResp' = [eResp EXCEPT ![d] = ExtractError(500)]
            /\ UNCHANGED cache
  /\ epc' = [epc EXCEPT ![d] = "done"]
  /\ UNCHANGED <<clauseRows, eForce, eNew, eGen, eOld, eRace, workspaceRow, conversationRow, xpc>>
  /\ UNCHANGED <<docVars, cacheEnabled, callVars, pipelineVars, unitVars>>

\* the response is delivered; the next request on d may start
extract_clauses_return(d) ==
  /\ epc[d] = "done"
  /\ epc' = [epc EXCEPT ![d] = "idle"]
  /\ eResp' = [eResp EXCEPT ![d] = None]
  /\ UNCHANGED <<clauseRows, eForce, eNew, eGen, eOld, eRace, workspaceRow, conversationRow, xpc>>
  /\ UNCHANGED <<docVars, cacheVars, callVars, pipelineVars, unitVars>>

ExtractBusy(d) == epc[d] # "idle"

(***************************************************************************)
(* delete_workspace (workspaces.py)                                        *)
(***************************************************************************)
\* workspaces.py 98-111: load the workspace (404 when missing), db.delete, db.commit.
\* The relationships cascade (models/workspace.py 26-27, document.py 48-49,
\* conversation.py 24): documents, their clauses, conversations and their
\* messages go with the workspace row.
delete_workspace_commit ==
  /\ xpc = "idle" /\ workspaceRow
  /\ workspaceRow' = FALSE
  /\ conversationRow' = FALSE
  /\ messages' = <<>>
  /\ row' = [d \in Docs |-> NoRow]
  /\ clauseRows' = [d \in Docs |-> {}]
  /\ xpc' = "committed"
  /\ UNCHANGED <<file, vec, upc, wpc, wChunks, dpc, unflushed, dRace, searchVars, listVars>>
  /\ UNCHANGED <<epc, eForce, eNew, eResp, eGen, eOld, eRace>>
  /\ UNCHANGED <<cacheVars, callVars, ragVars, apc, next_index, asks, unitVars>>

\* workspaces.py 113-117: invalidate_workspace, delete of the user's workspace
\* list key (a key of no workspace: outside Keys), return
delete_workspace_invalidate ==
  /\ xpc = "committed"
  /\ cache' = InvalidateWorkspace(cacheEnabled, NoDowns, cache, Workspace)
  /\ xpc' = "done"
  /\ UNCHANGED <<workspaceRow, conversationRow, clauseVars>>
  /\ UNCHANGED <<docVars, cacheEnabled, callVars, pipelineVars, unitVars>>

WorkspaceDeleteBusy == xpc = "committed"

(***************************************************************************)
(* Specification: the workspace's requests served one after another,       *)
(* clause extraction and workspace deletion included                       *)
(***************************************************************************)
\* what the extractor returns in the specifications that follow a document
\* through its life: nothing, one clause, or two clauses of one type on one
\* page, the second with a blank reasoning and a text too short to keep
GoodClause == ExtractedClause("Payment", Chars(10, "a"), 1, 90, 30, <<"r">>)
WeakClause == ExtractedClause("Payment", <<" ">> \o Chars(10, "a"), 1, 80, 80, <<" ">>)
ShortClause == ExtractedClause("Payment", Chars(3, "a"), 1, 80, 80, <<>>)
ExtractorSamples == {<<>>, <<GoodClause, WeakClause>>, <<GoodClause, ShortClause>>}

BusyWs == Busy \cup {<<"extract", d>> : d \in {x \in Docs : ExtractBusy(x)}}
               \cup (IF WorkspaceDeleteBusy THEN {<<"delete_workspace", "-">>} ELSE {})

\* the conversation holds one exchange, stored by an earlier ask_question
InitWs ==
  /\ DocumentsIdle /\ cacheEnabled \in BOOLEAN /\ RagIdle
  /\ messages = <<ConversationMessage(0, "user", "question"),
                  ConversationMessage(1, "assistant", "answer")>>
  /\ apc = [a \in Askers |-> "idle"]
  /\ next_index = [a \in Askers |-> 0] /\ asks = 1

NextWs ==
  \/ \E d \in Docs : BusyWs \subseteq {<<"upload", d>>} /\ upload_document_write_file(d)
  \/ \E d \in Docs : BusyWs \subseteq {<<"upload", d>>} /\ upload_document_commit(d)
  \/ \E d \in Docs : BusyWs \subseteq {<<"upload", d>>} /\ upload_document_invalidate(d)
  \/ \E d \in Docs : BusyWs \subseteq {<<"worker", d>>} /\ process_load(d)
  \/ \E d \in Docs : BusyWs \subseteq {<<"worker", d>>} /\ process_set_processing(d)
  \/ \E d \in Docs : BusyWs \subseteq {<<"worker", d>>} /\ process_extract_ok(d)
  \/ \E d \in Docs : BusyWs \subseteq {<<"worker", d>>} /\ process_commit_processed(d)
  \/ \E d \in Docs : BusyWs \subseteq {<<"worker", d>>} /\ process_invalidate(d)
  \/ \E d \in Docs : BusyWs \subseteq {<<"worker", d>>} /\ process_index_ok(d)
  \/ \E d \in Docs : BusyWs \subseteq {<<"delete", d>>} /\ delete_document_load(d)
  \/ \E d \in Docs : BusyWs \subseteq {<<"delete", d>>} /\ delete_document_vectors(d)
  \/ \E d \in Docs : BusyWs \subseteq {<<"delete", d>>} /\ delete_document_invalidate(d)
  \/ \E d \in Docs : BusyWs \subseteq {<<"delete", d>>} /\ delete_document_commit(d)
  \/ \E f \in Filters : BusyWs \subseteq {<<"search", "-">>} /\ search_cache_get(f)
  \/ BusyWs \subseteq {<<"search", "-">>} /\ search_query
  \/ BusyWs \subseteq {<<"search", "-">>} /\ search_cache_set
  \/ BusyWs \subseteq {<<"search", "-">>} /\ search_done
  \/ BusyWs \subseteq {<<"list", "-">>} /\ list_documents_cache_get
  \/ BusyWs \subseteq {<<"list", "-">>} /\ list_documents_query
  \/ BusyWs \subseteq {<<"list", "-">>} /\ list_documents_cache_set
  \/ BusyWs \subseteq {<<"list", "-">>} /\ list_documents_done
  \/ \E d \in Docs, force \in BOOLEAN :
       BusyWs \subseteq {<<"extract", d>>} /\ extract_clauses_load(d, force)
  \/ \E d \in Docs : BusyWs \subseteq {<<"extract", d>>} /\ extract_clauses_delete_existing(d)
  \/ \E d \in Docs : BusyWs \subseteq {<<"extract", d>>} /\ extract_clauses_get_chunks(d)
  \/ \E d \in Docs : BusyWs \subseteq {<<"extract", d>>}
                     /\ extract_clauses_extract(d, ExtractorSamples)
  \/ \E d \in Docs : BusyWs \subseteq {<<"extract", d>>} /\ extract_clauses_revalidate(d)
  \/ \E d \in Docs : BusyWs \subseteq {<<"extract", d>>} /\ extract_clauses_commit(d)
  \/ \E d \in Docs : BusyWs \subseteq {<<"extract", d>>} /\ extract_clauses_respond(d)
  \/ \E d \in Docs : BusyWs \subseteq {<<"extract", d>>} /\ extract_clauses_return(d)
  \/ BusyWs \subseteq {<<"delete_workspace", "-">>} /\ delete_workspace_commit
  \/ BusyWs \subseteq {<<"delete_workspace", "-">>} /\ delete_workspace_invalidate

SpecWs == InitWs /\ [][NextWs]_vars

\* nothing of the workspace is left in the tables, the cache, the upload
\* directory or the vector store
WorkspaceGone ==
  /\ \A d \in Docs : ~RowExists(d) /\ clauseRows[d] = {}
  /\ ~conversationRow /\ messages = <<>>
  /\ \A k \in Keys \ {EmbeddingKey} : cache[k] = None
  /\ \A d \in Docs : ~file[d]
  /\ vec = {}

\* C12: when delete_workspace returns, no row of the workspace's documents,
\* clauses, conversations or messages, no cache entry of the workspace, no
\* uploaded file and no vector entry of the workspace is left.
C12_WorkspaceDeletionCascades ==
  [][(xpc = "committed" /\ xpc' = "done") => WorkspaceGone']_vars

\* C13: a forced re-extract that succeeds on a document with clauses leaves
\* stored exactly the clauses it returned and none of the earlier ones; a call
\* without force on a document with clauses returns the stored clauses and
\* changes none.
C13_ForceReplaces ==
  \A d \in Docs :
    (epc[d] = "done" /\ eResp[d] # None /\ eResp[d][1].code = 200 /\ eOld[d] # {}) =>
       IF eForce[d]
         THEN clauseRows[d] = eResp[d][1].clauses /\ clauseRows[d] \cap eOld[d] = {}
         ELSE eResp[d][1].clauses = eOld[d] /\ clauseRows[d] = eOld[d]

\* a forced re-extract on a document with clauses has returned clauses
C13_Witness ==
  \E d \in Docs :
    /\ epc[d] = "done" /\ eForce[d] /\ eOld[d] # {}
    /\ eResp[d] # None /\ eResp[d][1].code = 200 /\ eResp[d][1].clauses # {}
    /\ clauseRows[d] = eResp[d][1].clauses

(***************************************************************************)
(* Specification: extract_clauses over every short clause the extractor    *)
(* can return, on a processed document                                     *)
(***************************************************************************)
\* the state a successful upload and background run of every document leaves
ProcessedIdle ==
  /\ WorkspaceIdle /\ UnitIdle /\ CallIdle
  /\ row = [d \in Docs |-> "Processed"]
  /\ file = [d \in Docs |-> TRUE]
  /\ vec = Docs
  /\ cache = [k \in Keys |-> None]
  /\ upc = [d \in Docs |-> "done"]
  /\ wpc = [d \in Docs |-> "done"]
  /\ wChunks = [d \in Docs |-> TRUE]
  /\ dpc = [d \in Docs |-> "idle"]
  /\ unflushed = {<<"worker", d>> : d \in Docs}
  /\ dRace = {}
  /\ spc = "idle" /\ sFilter = "all" /\ sVal = {} /\ sRes = {} /\ sFromCache = FALSE
  /\ sFresh = {} /\ sAfterDelete = {}
  /\ lpc = "idle" /\ lVal = {} /\ lRes = {} /\ lFromCache = FALSE /\ lFresh = {}

MaxTextLen == 11
TextChars == {" ", "a"}
RiskScores == {-1, 0, 25, 50, 75, 100, 101}
Reasonings == {<<>>, <<" ">>, <<"r">>}
\* one-clause extractor outputs
ClauseGrid ==
  {<<ExtractedClause("Payment", text, 1, 90, risk, reasoning)>> :
     text \in SeqsUpTo(TextChars, MaxTextLen), risk \in RiskScores, reasoning \in Reasonings}

InitClause == ProcessedIdle /\ cacheEnabled = TRUE /\ RagIdle /\ AskIdle

NextClause ==
  \/ \E d \in Docs : extract_clauses_load(d, FALSE)
  \/ \E d \in Docs : extract_clauses_get_chunks(d)
  \/ \E d \in Docs : extract_clauses_extract(d, ClauseGrid)
  \/ \E d \in Docs : extract_clauses_revalidate(d)
  \/ \E d \in Docs : extract_clauses_commit(d)
  \/ \E d \in Docs : extract_clauses_respond(d)
  \/ \E d \in Docs : extract_clauses_return(d)

SpecClause == InitClause /\ [][NextClause]_vars

\* C14: every stored clause row has a text of at least 10 characters after
\* trimming, a risk_score within [0, 100] and a risk_reasoning that is not
\* empty after trimming, whatever the extractor and the deduplicator return.
C14_StoredClausesValid ==
  \A d \in Docs : \A c \in clauseRows[d] :
    /\ Len(Strip(c.extracted_text)) >= 10
    /\ 0 <= c.risk_score /\ c.risk_score <= 100
    /\ Strip(c.risk_reasoning) # <<>>

\* a stored clause whose text is padded, whose score sits on the upper bound
\* and whose reasoning is the synthesized sentence
C14_Witness ==
  \E d \in Docs : \E c \in clauseRows[d] :
    /\ Head(c.extracted_text) = " " /\ Len(Strip(c.extracted_text)) = 10
    /\ c.risk_score = 100
    /\ c.risk_reasoning = FallbackReasoning(100)

(***************************************************************************)
(* Specification: extract_clauses and delete_document on one processed     *)
(* document, interleaved step by step                                      *)
(***************************************************************************)
InitExtract == ProcessedIdle /\ cacheEnabled \in BOOLEAN /\ RagIdle /\ AskIdle

NextExtract ==
  \/ \E d \in Docs, force \in BOOLEAN : extract_clauses_load(d, force)
  \/ \E d \in Docs : extract_clauses_delete_existing(d)
  \/ \E d \in Docs : extract_clauses_get_chunks(d)
  \/ \E d \in Docs : extract_clauses_extract(d, ExtractorSamples)
  \/ \E d \in Docs : extract_clauses_extract_raised(d)
  \/ \E d \in Docs : extract_clauses_revalidate(d)
  \/ \E d \in Docs : extract_clauses_commit(d)
  \/ \E d \in Docs : extract_clauses_respond(d)
  \/ \E d \in Docs : extract_clauses_return(d)
  \/ \E d \in Docs : delete_document_load(d)
  \/ \E d \in Docs : delete_document_vectors(d)
  \/ \E d \in Docs : delete_document_invalidate(d)
  \/ \E d \in Docs : delete_document_commit(d)

SpecExtract == InitExtract /\ [][NextExtract]_vars

\* C15: when delete_document removes the document while extract_clauses runs on
\* it, after the initial load and before the final commit, extract_clauses
\* responds 410 and no clause row of the document is left committed.
C15_DeletedDuringExtractGone ==
  \A d \in Docs :
    (d \in eRace /\ epc[d] = "done") =>
       /\ eResp[d] # None /\ eResp[d][1].code = 410
       /\ clauseRows[d] = {}

(***************************************************************************)
(* Claims on upload_document                                               *)
(***************************************************************************)
UploadReturned(d) == upc[d] \in {"done", "raised", "rejected"}

Raised(module, line, class, status_code) ==
  [module |-> module, line |-> line, class |-> class, status_code |-> status_code]

\* the raise statements of the document, clause, conversation and workspace
\* endpoints
RaiseSites ==
  {Raised("documents", l, "HTTPException", 404) : l \in {155, 240, 273, 329, 337, 341, 372, 380}}
  \cup {Raised("documents", l, "HTTPException", 400) : l \in {160, 171}}
  \cup {Raised("documents", 321, "HTTPException", 401)}
  \cup {Raised("documents", 281, "NotFoundError", 404)}
  \cup {Raised("documents", 220, "ProcessingError", 500)}
  \cup {Raised("clauses", l, "HTTPException", 404) :
          l \in {57, 66, 103, 262, 270, 351, 357, 364, 395, 401, 408}}
  \cup {Raised("clauses", 70, "HTTPException", 400)}
  \cup {Raised("clauses", 183, "HTTPException", 410)}
  \cup {Raised("conversations", l, "HTTPException", 404) : l \in {95, 155, 163, 355, 363, 416}}
  \cup {Raised("conversations", l, "NotFoundError", 404) : l \in {58, 223, 231}}
  \cup {Raised("conversations", 332, "ProcessingError", 500)}
  \cup {Raised("workspaces", l, "NotFoundError", 404) : l \in {85, 103}}

\* a request whose parameters do not validate, and an exception no endpoint
\* raises itself (a database error at a commit, say)
FrameworkRaises ==
  {Raised(m, 0, "RequestValidationError", 422) :
     m \in {"documents", "clauses", "conversations", "workspaces"}}
  \cup {Raised(m, 0, "Exception", 500) :
          m \in {"documents", "clauses", "conversations", "workspaces"}}

\* the classes an exception is an instance of, most specific first
ClassesOf(class) ==
  CASE class \in {"NotFoundError", "ProcessingError"} -> <<class, "ContractIQException", "Exception">>
    [] class = "ContractIQException" -> <<class, "Exception">>
    [] class = "HTTPException" -> <<class, "Exception">>
    [] class = "RequestValidationError" -> <<class, "Exception">>
    [] OTHER -> <<"Exception">>

\* the classes a handler is installed for: the three of main.py 51, 77, 110 and
\* the one FastAPI() installs for HTTPException (main.py 34)
HandledClasses == {"ContractIQException", "RequestValidationError", "Exception", "HTTPException"}

RECURSIVE LookupHandler(_)
\* the handler of the most specific handled class
LookupHandler(classes) ==
  IF Head(classes) \in HandledClasses THEN Head(classes) ELSE LookupHandler(Tail(classes))

\* schemas/errors.py 17-23: ErrorResponse(...).model_dump()
ErrorResponse(error_code, message, details) ==
  [error |-> TRUE, error_code |-> error_code, message |-> message, details |-> details,
   timestamp |-> "utcnow"]

\* core/exceptions.py: error_code of the exception classes
ErrorCodeOf(class) == CASE class = "NotFoundError" -> "NOT_FOUND"
                        [] class = "ProcessingError" -> "PROCESSING_ERROR"
                        [] OTHER -> class

JSONResponse(status_code, content) == [status_code |-> status_code, content |-> content]

\* main.py 51-75
contractiq_exception_handler(exc) ==
  JSONResponse(exc.status_code, ErrorResponse(ErrorCodeOf(exc.class), "user_message", "details"))

\* main.py 77-107
validation_exception_handler(exc) ==
  JSONResponse(422, ErrorResponse("VALIDATION_ERROR", "Invalid request data. Please check your input.",
                                  "validation_errors"))

\* main.py 110-146
general_exception_handler(exc, environment) ==
  JSONResponse(500, ErrorResponse("INTERNAL_ERROR",
                                  IF environment = "production"
                                    THEN "An internal error occurred. Please try again later."
                                    ELSE "Internal error",
                                  IF environment = "production" THEN "error_id" ELSE "traceback"))

\* the handler FastAPI installs for HTTPException: the body is {"detail": exc.detail}
http_exception_handler(exc) == JSONResponse(exc.status_code, [detail |-> "detail"])

\* the application answers the failed request
error_respond ==
  /\ errRaised # None /\ errResponse = None
  /\ LET exc == errRaised[1]
         handler == LookupHandler(ClassesOf(exc.class))
     IN errResponse' =
          Some(CASE handler = "ContractIQException" -> contractiq_exception_handler(exc)
                 [] handler = "RequestValidationError" -> validation_exception_handler(exc)
                 [] handler = "HTTPException" -> http_exception_handler(exc)
                 [] OTHER -> general_exception_handler(exc, errEnvironment))
  /\ UNCHANGED <<errRaised, errEnvironment>>
  /\ UNCHANGED <<docVars, cacheVars, callVars, pipelineVars, wsVars, dedupVars, pageVars, extVars>>

InitErr ==
  /\ WorkspaceIdle /\ TablesIdle /\ DedupIdle /\ PageIdle /\ ExtIdle /\ cacheEnabled = TRUE /\ RagIdle /\ AskIdle
  /\ errRaised \in {Some(e) : e \in RaiseSites \cup FrameworkRaises}
  /\ errEnvironment \in {"production", "development"}
  /\ errResponse = None

NextErr == error_respond

SpecErr == InitErr /\ [][NextErr]_vars

StandardEnvelope(content) ==
  /\ DOMAIN content = {"error", "error_code", "message", "details", "timestamp"}
  /\ content.error = TRUE

\* C18: every response with a status outside 2xx that the document, clause,
\* conversation and workspace endpoints produce carries the standard envelope:
\* error = true, error_code, message, details and timestamp.
C18_ErrorsInEnvelope ==
  (errResponse # None /\ errResponse[1].status_code \notin 200..299)
     => StandardEnvelope(errResponse[1].content)

(***************************************************************************)
(* DocumentProcessor and index_document_chunks on one file                 *)
(* (document_processor.py, vector_store.py)                                *)
(* Page and chunk texts are short: one sentence, no clause marker, so the   *)
(* sentence splitters return the text as its only sentence.                 *)
(***************************************************************************)
\* f"chunk_{page_num}_{chunk_num}" (document_processor.py 427, 441, 561, 585, 601)
ChunkId(page_num, chunk_num) == <<"chunk", page_num, chunk_num>>

\* DocumentChunk: the fields the post-processing and the indexing read
DocumentChunk(chunk_id, text, page_number, section_name) ==
  [chunk_id |-> chunk_id, text |-> text, page_number |-> page_number,
   section_name |-> section_name]

\* document_processor.py 475-480: the section of the first chunk on a page next to page_num
InferSectionName(page_num, existing_chunks) ==
  LET near == {i \in 1..Len(existing_chunks) :
                 Abs(existing_chunks[i].page_number - page_num) <= 1}
  IN IF near = {} THEN "Unknown"
     ELSE existing_chunks[CHOOSE i \in near : \A j \in near : i <= j].section_name

\* DocumentProcessor._create_fallback_chunks_for_page, for a page of one sentence:
\* the sentence, stripped, is the page's one chunk; a blank page gives none
_create_fallback_chunks_for_page(page_num, page_text, existing_chunks) ==
  IF Strip(page_text) = <<>> THEN <<>>
  ELSE <<DocumentChunk(ChunkId(page_num, 0), Strip(page_text), page_num,
                       InferSectionName(page_num, existing_chunks))>>

RECURSIVE AddFallbackChunks(_, _, _)
\* document_processor.py 165-171: for page_num in sorted(missing_pages)
AddFallbackChunks(missing_pages, page_map, chunks) ==
  IF missing_pages = {} THEN chunks
  ELSE LET page_num == CHOOSE p \in missing_pages : \A q \in missing_pages : p <= q
       IN AddFallbackChunks(missing_pages \ {page_num}, page_map,
            chunks \o (IF Strip(page_map[page_num]) # <<>>
                         THEN _create_fallback_chunks_for_page(page_num, page_map[page_num], chunks)
                         ELSE <<>>))

\* document_processor.py 154-171 (and 388-406, 251-267): pages no chunk names get
\* fallback chunks
EnsureAllPagesCovered(chunks, page_map) ==
  LET pages_with_chunks == {chunks[i].page_number : i \in 1..Len(chunks)}
      missing_pages == DOMAIN page_map \ pages_with_chunks
  IN AddFallbackChunks(missing_pages, page_map, chunks)

RECURSIVE PageChunksOnFailure(_, _)
\* document_processor.py 410-446: the structuring call raised; every page is
\* cut into sentence chunks
PageChunksOnFailure(pages, page_map) ==
  IF pages = {} THEN <<>>
  ELSE LET page_num == CHOOSE p \in pages : \A q \in pages : p <= q
       IN (IF Strip(page_map[page_num]) # <<>>
             THEN <<DocumentChunk(ChunkId(page_num, 0), Strip(page_map[page_num]), page_num, "Unknown")>>
             ELSE <<>>)
          \o PageChunksOnFailure(pages \ {page_num}, page_map)

\* DocumentProcessor._structure_with_llm
_structure_with_llm(reply, page_map) ==
  IF reply = None THEN PageChunksOnFailure(DOMAIN page_map, page_map)
  ELSE EnsureAllPagesCovered(reply[1], page_map)

\* DocumentProcessor.process_pdf: result["chunks"]
process_pdf(reply, page_map) == EnsureAllPagesCovered(_structure_with_llm(reply, page_map), page_map)

\* vector_store.py 118-178: chunks with a blank text are skipped; every other
\* chunk is embedded and added with its page_number
index_document_chunks(chunks) ==
  {[id |-> chunks[i].chunk_id, text |-> chunks[i].text, page_number |-> chunks[i].page_number] :
     i \in {j \in 1..Len(chunks) : chunks[j].text # <<>> /\ Strip(chunks[j].text) # <<>>}}

\* documents.py 54: document_processor.process_pdf(file_path)
pages_structure ==
  /\ pagePc = "start"
  /\ resultChunks' = process_pdf(structureReply, page_text_map)
  /\ pagePc' = "structured"
  /\ UNCHANGED <<page_text_map, structureReply, entries>>
  /\ UNCHANGED <<docVars, cacheVars, callVars, pipelineVars, wsVars, dedupVars, errVars, extVars>>

\* documents.py 87-100: the status is Processed; the chunks are indexed, all
\* embeddings succeeding
pages_index ==
  /\ pagePc = "structured"
  /\ entries' = IF resultChunks = <<>> THEN {} ELSE index_document_chunks(resultChunks)
  /\ pagePc' = "indexed"
  /\ UNCHANGED <<page_text_map, structureReply, resultChunks>>
  /\ UNCHANGED <<docVars, cacheVars, callVars, pipelineVars, wsVars, dedupVars, errVars, extVars>>

MaxPages == 2
MaxReplyChunks == 2
PageTexts == {<<>>, <<" ">>, <<"a">>, <<" ", "a">>}
ChunkTexts == {<<>>, <<" ">>, <<"b">>}
\* the chunk_id values the structuring call fills in
ReplyIds == {ChunkId(1, 0), ChunkId(1, 1)}
\* what the structuring call can return: chunks with any of the ids and texts,
\* naming a page of the file or a page it does not have
ReplyChunks ==
  {DocumentChunk(id, text, page, "Section") :
     id \in ReplyIds, text \in ChunkTexts, page \in 1..(MaxPages + 1)}

InitPages ==
  /\ WorkspaceIdle /\ TablesIdle /\ DedupIdle /\ ErrIdle /\ ExtIdle /\ cacheEnabled = TRUE /\ RagIdle /\ AskIdle
  /\ page_text_map \in UNION {[1..n -> PageTexts] : n \in 1..MaxPages}
  /\ structureReply \in {None} \cup {Some(chunks) : chunks \in SeqsUpTo(ReplyChunks, MaxReplyChunks)}
  /\ resultChunks = <<>> /\ entries = {} /\ pagePc = "start"

NextPages == pages_structure \/ pages_index

SpecPages == InitPages /\ [][NextPages]_vars

\* C19: once a document is processed and indexed, every page whose text has a
\* non-whitespace character is the page_number of at least one entry of the
\* collection, whatever the structuring call returned, embeddings succeeding.
C19_PagesCovered ==
  pagePc = "indexed" =>
    \A p \in DOMAIN page_text_map :
      Strip(page_text_map[p]) # <<>> => \E e \in entries : e.page_number = p

(***************************************************************************)
(* Specification: upload, the background task and deletion of a document,  *)
(* the background task always running on once it is enqueued               *)
(***************************************************************************)
\* the steps of process_document_background(d)
WorkerStep(d) ==
  \/ process_load(d)
  \/ process_set_processing(d)
  \/ process_extract_ok(d)
  \/ process_extract_failed(d)
  \/ process_mark_failed(d)
  \/ process_commit_processed(d)
  \/ process_invalidate(d)
  \/ process_invalidate_row_gone(d)
  \/ process_index_ok(d)
  \/ process_index_failed(d)

NextWorker ==
  \/ \E d \in Docs : upload_document_rejected(d)
  \/ \E d \in Docs : upload_document_write_failed(d)
  \/ \E d \in Docs : upload_document_write_file(d)
  \/ \E d \in Docs : upload_document_commit(d)
  \/ \E d \in Docs : upload_document_commit_failed(d)
  \/ \E d \in Docs : upload_document_refresh_failed(d)
  \/ \E d \in Docs : upload_document_invalidate(d)
  \/ \E d \in Docs : process_load(d)
  \/ \E d \in Docs : process_set_processing(d)
  \/ \E d \in Docs : process_extract_ok(d)
  \/ \E d \in Docs : process_extract_failed(d)
  \/ \E d \in Docs : process_mark_failed(d)
  \/ \E d \in Docs : process_commit_processed(d)
  \/ \E d \in Docs : process_invalidate(d)
  \/ \E d \in Docs : process_invalidate_row_gone(d)
  \/ \E d \in Docs : process_index_ok(d)
  \/ \E d \in Docs : process_index_failed(d)
  \/ \E d \in Docs : delete_document_load(d)
  \/ \E d \in Docs : delete_document_vectors(d)
  \/ \E d \in Docs : delete_document_invalidate(d)
  \/ \E d \in Docs : delete_document_commit(d)

\* FastAPI runs an enqueued background task after the response is sent and
\* the task runs on to its end: its next step is eventually taken
SpecWorker == Init /\ [][NextWorker]_vars /\ \A d \in Docs : WF_vars(WorkerStep(d))

MaxRetries == 2

\* what a call did: it returned message, or raised an exception of class
\* class whose str() is message; retryable is the attribute ExternalServiceError sets
Returned(value) ==
  [kind |-> "return", class |-> "-", message |-> value, retryable |-> "unset"]
RaisedException(class, message) ==
  [kind |-> "raise", class |-> class, message |-> message, retryable |-> "unset"]

\* exceptions.py 90-107: the message is prefixed with the service
ExternalServiceError(service, message, retryable) ==
  [kind |-> "raise", class |-> "ExternalServiceError",
   message |-> <<service, " error: ">> \o message, retryable |-> retryable]

\* exceptions.py 124-135
RateLimitError(message) == RaisedException("RateLimitError", message)

\* the classes an exception of class is an instance of (openai and builtin
\* hierarchies; core/exceptions.py for the application's own)
ExceptionClasses(class) ==
  CASE class = "OpenAIRateLimitError" -> <<class, "APIStatusError", "APIError", "OpenAIError", "Exception">>
    [] class = "APITimeoutError" -> <<class, "APIConnectionError", "APIError", "OpenAIError", "Exception">>
    [] class = "APIConnectionError" -> <<class, "APIError", "OpenAIError", "Exception">>
    [] class = "APIError" -> <<class, "OpenAIError", "Exception">>
    [] class \in {"ConnectionError", "TimeoutError"} -> <<class, "OSError", "Exception">>
    [] class \in {"ExternalServiceError", "RateLimitError"} -> <<class, "ContractIQException", "Exception">>
    [] class = "ValueError" -> <<class, "Exception">>
    [] OTHER -> ClassesOf(class)

isinstance(e, exc_type) == exc_type \in Range(ExceptionClasses(e.class))

\* retry.py 19-47: RetryConfig.__init__
RetryConfig(max_retries, retryable_exceptions) ==
  [max_retries |-> max_retries,
   retryable_exceptions |-> IF retryable_exceptions = <<>> THEN <<"Exception">>
                            ELSE retryable_exceptions]

\* retry.py 82: any(isinstance(e, exc_type) for exc_type in config.retryable_exceptions)
IsRetryable(e, config) ==
  \E i \in 1..Len(config.retryable_exceptions) : isinstance(e, config.retryable_exceptions[i])

\* variant: the test for the last attempt is off by one
LastAttemptPassed(attempt, config) == attempt > config.max_retries

\* retry.py 87: attempt >= config.max_retries
LastAttempt(attempt, config) == attempt >= config.max_retries

\* retry.py 69: operation_name or func.__name__
OpName(func) == CASE func = "_call_openai" -> "get_embedding"
                  [] func = "_call_openai_batch" -> "get_embeddings_batch"
                  [] OTHER -> func

\* embedding_service.py 66-85 and 151-170: the remote call and its two handlers
\* (RateLimitError of openai is caught first); anything else goes through
_call_openai(remote) ==
  IF remote.kind = "return" THEN remote
  ELSE IF isinstance(remote, "OpenAIRateLimitError")
    THEN RateLimitError(<<"OpenAI rate limit exceeded">>)
  ELSE IF isinstance(remote, "APIError")
    THEN ExternalServiceError("OpenAI Embeddings", remote.message, "True")
  ELSE remote

\* one invocation of the wrapped function, the remote endpoint doing remote
Invoke(func, remote) ==
  IF func \in {"_call_openai", "_call_openai_batch"} THEN _call_openai(remote) ELSE remote

\* retry.py 75-96: one pass of the loop body up to the sleep
retry_invoke(remotes) ==
  /\ rtPc = "calling"
  /\ \E remote \in remotes :
       LET e == Invoke(rtFunc, remote)
       IN /\ rtRemote' = Append(rtRemote, remote)
          /\ rtInvocations' = Append(rtInvocations, e)
          /\ IF e.kind = "return"
               THEN rtPc' = "returned" /\ rtResult' = Some(e)
             ELSE IF ~IsRetryable(e, rtConfig)
               THEN rtPc' = "raised" /\ rtResult' = Some(e)                   \* raise
             ELSE IF LastAttempt(rtAttempt, rtConfig)
               THEN /\ rtPc' = "raised"
                    /\ rtResult' = Some(ExternalServiceError(OpName(rtFunc), e.message, "False"))
             ELSE rtPc' = "sleeping" /\ UNCHANGED rtResult
  /\ UNCHANGED <<rtConfig, rtFunc, rtAttempt, rtSleeps, embResult>>
  /\ UNCHANGED <<docVars, cacheVars, callVars, pipelineVars, wsVars, dedupVars, errVars, pageVars, indexVars, isoVars, authVars>>

\* retry.py 98-119: the sleep, then the next pass of the loop, or, when the
\* range is used up, raise last_exception
retry_sleep ==
  /\ rtPc = "sleeping"
  /\ rtSleeps' = rtSleeps + 1
  /\ rtAttempt' = rtAttempt + 1
  /\ IF rtAttempt + 1 <= rtConfig.max_retries
       THEN rtPc' = "calling" /\ UNCHANGED rtResult
       ELSE rtPc' = "raised" /\ rtResult' = Some(rtInvocations[Len(rtInvocations)])
  /\ UNCHANGED <<rtConfig, rtFunc, rtRemote, rtInvocations, embResult>>
  /\ UNCHANGED <<docVars, cacheVars, callVars, pipelineVars, wsVars, dedupVars, errVars, pageVars, indexVars, isoVars, authVars>>

\* embedding_service.py 94-111: the embedding is cached and returned; the
\* application's own exceptions are re-raised, any other is wrapped
get_embedding_finish ==
  /\ rtFunc = "_call_openai" /\ rtPc \in {"returned", "raised"} /\ embResult = None
  /\ LET r == rtResult[1]
     IN IF r.kind = "return"
          THEN /\ cache' = CacheSet(cacheEnabled, FALSE, cache, EmbeddingKey, r.message)
               /\ embResult' = Some(r)
          ELSE /\ UNCHANGED cache
               /\ embResult' =
                    Some(IF isinstance(r, "ExternalServiceError") \/ isinstance(r, "RateLimitError")
                           THEN r
                           ELSE ExternalServiceError("OpenAI Embeddings",
                                                     <<"Unexpected error: ">> \o r.message, "False"))
  /\ UNCHANGED <<rtConfig, rtFunc, rtAttempt, rtRemote, rtInvocations, rtSleeps, rtPc, rtResult>>
  /\ UNCHANGED <<docVars, cacheEnabled, callVars, pipelineVars, wsVars, dedupVars, errVars, pageVars, indexVars, isoVars, authVars>>

\* the list get_embeddings_batch returns when it gives up: [None] * len(texts)
AllAbsent == Returned(<<"None">>)

\* embedding_service.py 179-195: the embeddings, or all-absent on any exception
get_embeddings_batch_finish ==
  /\ rtFunc = "_call_openai_batch" /\ rtPc \in {"returned", "raised"} /\ embResult = None
  /\ embResult' = Some(IF rtResult[1].kind = "return" THEN rtResult[1] ELSE AllAbsent)
  /\ UNCHANGED <<rtConfig, rtFunc, rtAttempt, rtRemote, rtInvocations, rtSleeps, rtPc, rtResult>>
  /\ UNCHANGED <<docVars, cacheVars, callVars, pipelineVars, wsVars, dedupVars, errVars, pageVars, indexVars, isoVars, authVars>>

(***************************************************************************)
(* Specification: one call of a wrapped function, over every configuration *)
(* and every run of failures                                               *)
(***************************************************************************)
ErrorMessages == {<<"m1">>, <<"m2">>}
FuncOutcomes ==
  {Returned(<<"v">>)}
  \cup {RaisedException(c, m) : c \in {"ConnectionError", "TimeoutError", "ValueError"},
                                m \in ErrorMessages}
RetryableLists == {<<>>, <<"ConnectionError", "TimeoutError">>, <<"OSError">>}

InitRetry ==
  /\ WorkspaceIdle /\ TablesIdle /\ DedupIdle /\ ErrIdle /\ PageIdle
  /\ IndexIdle /\ IsoIdle /\ AuthIdle
  /\ cacheEnabled = TRUE /\ RagIdle /\ AskIdle
  /\ rtConfig \in {RetryConfig(n, l) : n \in 0..MaxRetries, l \in RetryableLists}
  /\ rtFunc = "func" /\ rtAttempt = 0 /\ rtRemote = <<>> /\ rtInvocations = <<>>
  /\ rtSleeps = 0 /\ rtPc = "calling" /\ rtResult = None /\ embResult = None

NextRetry == retry_invoke(FuncOutcomes) \/ retry_sleep

SpecRetry == InitRetry /\ [][NextRetry]_vars

AllRetryable(invocations, config) ==
  \A i \in 1..Len(invocations) :
    invocations[i].kind = "raise" /\ IsRetryable(invocations[i], config)

\* C22: the wrapped function is invoked at most max_retries + 1 times, never
\* again after an invocation returned, and when max_retries + 1 invocations
\* failed with retryable errors the wrapper raises an ExternalServiceError
\* with retryable false that carries the last error's message.
C22_RetryBounded ==
  /\ Len(rtInvocations) <= rtConfig.max_retries + 1
  /\ \A i \in 1..(Len(rtInvocations) - 1) : rtInvocations[i].kind = "raise"
  /\ (rtPc # "calling" /\ rtPc # "sleeping" /\ Len(rtInvocations) = rtConfig.max_retries + 1
        /\ AllRetryable(rtInvocations, rtConfig)) =>
       /\ rtPc = "raised"
       /\ rtResult[1].class = "ExternalServiceError"
       /\ rtResult[1].retryable = "False"
       /\ rtResult[1].message =
            <<OpName(rtFunc), " error: ">> \o rtInvocations[Len(rtInvocations)].message

\* three invocations failed with retryable errors, the last with another
\* message than the first, and the wrapper raised
C22_Witness ==
  /\ rtFunc = "func" /\ rtPc = "raised" /\ Len(rtInvocations) = 3 /\ rtSleeps = 2
  /\ AllRetryable(rtInvocations, rtConfig)
  /\ rtInvocations[1].message # rtInvocations[3].message
  /\ rtResult[1].class = "ExternalServiceError"

\* C23: an invocation failing with an error outside the retryable set ends
\* the call at once, with no sleep and no further invocation, and the wrapper
\* raises an ExternalServiceError with retryable false.
C23_NonRetryableWrapped ==
  \A i \in 1..Len(rtInvocations) :
    (rtInvocations[i].kind = "raise" /\ ~IsRetryable(rtInvocations[i], rtConfig)) =>
       /\ i = Len(rtInvocations) /\ rtSleeps = i - 1 /\ rtPc = "raised"
       /\ rtResult[1].class = "ExternalServiceError"
       /\ rtResult[1].retryable = "False"

(***************************************************************************)
(* Specification: get_embedding and get_embeddings_batch, the embedding    *)
(* endpoint failing in every way on every attempt                          *)
(***************************************************************************)
EmbedMaxRetries == 3
EmbedRetryable == <<"APIError", "OpenAIRateLimitError", "ConnectionError", "TimeoutError">>

RemoteOutcomes ==
  {Returned(<<"v">>)}
  \cup {RaisedException(c, <<"m1">>) :
          c \in {"OpenAIRateLimitError", "APIError", "APITimeoutError", "ConnectionError", "ValueError"}}

\* the client is configured, the text is not empty and its embedding is not cached
InitEmbed ==
  /\ WorkspaceIdle /\ TablesIdle /\ DedupIdle /\ ErrIdle /\ PageIdle
  /\ IndexIdle /\ IsoIdle /\ AuthIdle
  /\ cacheEnabled \in BOOLEAN /\ RagIdle /\ AskIdle
  /\ rtConfig = RetryConfig(EmbedMaxRetries, EmbedRetryable)
  /\ rtFunc \in {"_call_openai", "_call_openai_batch"}
  /\ rtAttempt = 0 /\ rtRemote = <<>> /\ rtInvocations = <<>>
  /\ rtSleeps = 0 /\ rtPc = "calling" /\ rtResult = None /\ embResult = None

NextEmbed ==
  \/ retry_invoke(RemoteOutcomes)
  \/ retry_sleep
  \/ get_embedding_finish
  \/ get_embeddings_batch_finish

SpecEmbed == InitEmbed /\ [][NextEmbed]_vars

\* the endpoint answered every attempt with a rate-limit or an API error
OnlyTransientFailures ==
  /\ rtRemote # <<>>
  /\ \A i \in 1..Len(rtRemote) :
       rtRemote[i].kind = "raise" /\ isinstance(rtRemote[i], "APIError")

\* C24: when the embedding endpoint answers with rate-limit or transient API
\* errors only, get_embedding surfaces a failure, and get_embeddings_batch
\* returns all-absent, only after 4 attempts of the remote call.
C24_TransientErrorsRetried ==
  (embResult # None /\ OnlyTransientFailures) => Len(rtRemote) = EmbedMaxRetries + 1

(***************************************************************************)
(* Specification: one run of the RAG graph over every list of search hits, *)
(* with no document filter, an empty one, one that matches and one that    *)
(* matches nothing                                                         *)
(***************************************************************************)
RetrieveFilters == {None, Some({}), Some({"d1"}), Some({"d3"})}

InitRetrieve ==
  /\ DocumentsIdle /\ cacheEnabled = TRUE /\ AskIdle
  /\ gpc = "start"
  /\ results \in SearchResults(Distances, MaxResults)
  /\ structured_answer = [answer |-> <<"Source", " ", "2">>, cited_sources |-> <<1>>]
  /\ retrieved_chunks = <<>> /\ answer = <<>> /\ citations = <<>> /\ error = "None"
  /\ NoRagCall

NextRetrieve ==
  \/ \E q \in Questions, ids \in RetrieveFilters : retrieve_node(q, ids)
  \/ \E c \in Classifications : generate_node_no_chunks(c)
  \/ generate_node
  \/ generate_node_failed

SpecRetrieve == InitRetrieve /\ [][NextRetrieve]_vars

\* R holds the n best of the hits xs: n of them (all when there are fewer),
\* each one once, best first, none of the hits left out better than one taken
IsTopOf(R, xs, n) ==
  /\ Len(R) = Min(n, Len(xs))
  /\ Range(R) \subseteq Range(xs)
  /\ \A i, j \in 1..Len(R) : i < j => R[i] # R[j] /\ R[i].score >= R[j].score
  /\ \A x \in Range(xs) \ Range(R) : \A i \in 1..Len(R) : x.score <= R[i].score

\* the statement of C25 for the run's R, the document filter counting as given
\* when Given holds
RetrieveResultIs(Given) ==
  (gpc = "retrieved" /\ question \notin {"hi", "hello", "hey"}) =>
    LET R == retrieved_chunks
        KeepDoc(h) == ~Given \/ h.document_id \in document_ids[1]
        Passing == SelectSeq(results, KeepDoc)
        Similar(h) == h.score > -3
        Above == SelectSeq(Passing, Similar)
    IN /\ Len(R) <= 5
       /\ \A i, j \in 1..Len(R) : i < j => R[i].score >= R[j].score
       /\ Given => \A i \in 1..Len(R) : R[i].document_id \in document_ids[1]
       /\ IF Above # <<>> THEN IsTopOf(R, Above, 5) ELSE IsTopOf(R, Passing, 5)

\* C25 (as stated): for a question that is no greeting, the retrieve node's
\* result R has at most 5 hits, sorted by similarity descending; when
\* document_ids is given every hit of R is of a listed document; and R is the
\* top 5 of the hits passing the document filter whose score is above -0.3,
\* or the top 5 of the hits passing the filter when none is above -0.3.
C25_RetrieveResult == RetrieveResultIs(document_ids # None)

\* C25 (amended): the same, the document filter applying only when
\* document_ids lists at least one document; an empty list filters nothing.
C25_RetrieveResultNonEmptyFilter ==
  RetrieveResultIs(document_ids # None /\ document_ids[1] # {})

\* six hits, a filter on one document, a hit of it above the threshold and
\* a hit of it dropped for its similarity
C25_Witness ==
  /\ gpc = "retrieved" /\ question \notin {"hi", "hello", "hey"}
  /\ document_ids = Some({"d1"}) /\ Len(results) = 6
  /\ retrieved_chunks # <<>>
  /\ \E i \in 1..Len(results) :
       /\ results[i].document_id = "d1" /\ results[i].score <= -3
       /\ results[i] \notin Range(retrieved_chunks)

CannedMessages ==
  {<<"Hello! I'm here to help">>, <<"I'm specialized in helping">>,
   <<"I couldn't find any relevant information">>}

\* C26: when the retrieval set handed to the generate node is empty, the run
\* makes one classification call and no structured generation call, returns no
\* citation and one of the three canned messages, the 'no relevant
\* information' one when the classification call fails; for a bare greeting no
\* vector search was made.
C26_EmptyRetrievalCanned ==
  [][(gpc = "retrieved" /\ retrieved_chunks = <<>> /\ gpc' = "generated") =>
       /\ classifierCalls' = 1 /\ structuredCalls' = 0
       /\ citations' = <<>>
       /\ answer' \in CannedMessages
       /\ generate_node_no_chunks("exception") =>
            answer' = <<"I couldn't find any relevant information">>
       /\ question \in {"hi", "hello", "hey"} => searchCalls' = 0]_vars

\* a greeting asked in a workspace whose collection has hits got its canned
\* reply without a search
C26_Witness ==
  /\ gpc = "generated" /\ question = "hi" /\ results # <<>>
  /\ retrieved_chunks = <<>> /\ searchCalls = 0 /\ classifierCalls = 1
  /\ answer \in CannedMessages /\ citations = <<>>

(***************************************************************************)
(* Claims on the deduplicator's result                                     *)
(***************************************************************************)
\* the clauses of xs at the positions S, in their order
Restrict(xs, S) == LET at == Ascending(S) IN [k \in 1..Len(at) |-> xs[at[k]]]

\* the clause at position r was judged a duplicate of a clause of its type, at
\* most two pages away, at a position of present
JudgedDuplicateIn(xs, decisions, r, present) ==
  \E k \in present \ {r} :
    /\ xs[k].clause_type = xs[r].clause_type
    /\ Abs(xs[k].page_number - xs[r].page_number) <= 2
    /\ (<<xs[r], xs[k]>> \in decisions \/ <<xs[k], xs[r]>> \in decisions)

RECURSIVE RemovedOneByOne(_, _, _, _)
\* the positions of present outside kept can be removed one after another,
\* each judged a duplicate of a clause still present when it goes
RemovedOneByOne(xs, decisions, present, kept) ==
  \/ present = kept
  \/ \E r \in present \ kept :
       /\ JudgedDuplicateIn(xs, decisions, r, present)
       /\ RemovedOneByOne(xs, decisions, present \ {r}, kept)

\* C29: deduplicate_clauses returns a subsequence of its input, not empty
\* when the input is not, and every clause it removed was judged a duplicate
\* of a clause of its type at most two pages away that was still kept then.
C29_DedupRemovesJudgedDuplicates ==
  dedupPc = "once" =>
    /\ dedupIn # <<>> => dedupOut1 # <<>>
    /\ \E kept \in SUBSET (1..Len(dedupIn)) :
         /\ dedupOut1 = Restrict(dedupIn, kept)
         /\ RemovedOneByOne(dedupIn, dedupDecisions, 1..Len(dedupIn), kept)

\* of three clauses one is left: the clause the first one removed was a
\* duplicate of was itself removed afterwards
C29_Witness ==
  /\ dedupPc = "once" /\ Len(dedupIn) = 3 /\ Len(dedupOut1) = 1
  /\ dedupIn[1] # dedupIn[2] /\ dedupIn[2] # dedupIn[3] /\ dedupIn[1] # dedupIn[3]
  /\ <<dedupIn[1], dedupIn[3]>> \notin dedupDecisions
  /\ <<dedupIn[3], dedupIn[1]>> \notin dedupDecisions

(***************************************************************************)
(* Claims on a forced re-extract that fails                                *)
(***************************************************************************)
\* C30: a forced extract_clauses has committed the deletion of the document's
\* clauses by the time it asks for the chunks, so when it ends in a 404, a 410
\* or a 500 none of the clauses stored before the call is left.
C30_ForcedFailureLeavesNoClauses ==
  \A d \in Docs :
    eForce[d] =>
      /\ epc[d] \in {"cleared", "chunks", "added", "validated"} => clauseRows[d] = {}
      /\ (epc[d] = "done" /\ eResp[d] # None /\ eResp[d][1].code \in {404, 410, 500}) =>
           clauseRows[d] = {}

\* a forced re-extract of a document that had clauses and is still stored
\* ended in a 500
C30_Witness ==
  \E d \in Docs :
    /\ epc[d] = "done" /\ eForce[d] /\ eOld[d] # {} /\ RowExists(d) /\ dpc[d] = "idle"
    /\ eResp[d] # None /\ eResp[d][1].code = 500
    /\ clauseRows[d] = {}

(***************************************************************************)
(* Specification: several documents processed and indexed into one         *)
(* workspace collection (documents.py 32-131, vector_store.py 90-178)      *)
(***************************************************************************)
IndexDocs == {"d1", "d2"}
\* every page of these files has text
IndexPageTexts == {<<"a">>}
IndexReplyChunks ==
  {DocumentChunk(id, <<"b">>, page, "Section") : id \in ReplyIds, page \in 1..MaxPages}

\* vector_store.py 118-125, 161-165: the chunks that reach collection.add, in
\* order: those with a non-blank text, all embeddings succeeding
ValidData(chunks) ==
  SelectSeq(chunks, LAMBDA chunk : chunk.text # <<>> /\ Strip(chunk.text) # <<>>)

\* vector_store.py 124-125, 175: ids=[item[3] for item in valid_data]
AddIds(chunks) == [i \in 1..Len(ValidData(chunks)) |-> ValidData(chunks)[i].chunk_id]

\* the ids of the batch are pairwise different
IdsDistinct(ids) == \A i, j \in 1..Len(ids) : ids[i] = ids[j] => i = j

\* vector_store.py 136-144, 171-176: the entries the call asks the collection to add
AddEntries(document_id, chunks) ==
  {[id |-> ValidData(chunks)[i].chunk_id, document_id |-> document_id,
    text |-> ValidData(chunks)[i].text, page_number |-> ValidData(chunks)[i].page_number] :
     i \in 1..Len(ValidData(chunks))}

\* vector_store.py 171-176: the chunks handed to collection.add, by position
AddedChunks(document_id, chunks) ==
  {[document_id |-> document_id, position |-> i, chunk_id |-> AddIds(chunks)[i]] :
     i \in 1..Len(AddIds(chunks))}

\* documents.py 45-54: the background task of document d starts on its file
index_begin(d) ==
  /\ pagePc = "indexed" /\ idxDocument = None /\ d \notin idxDone
  /\ idxDocument' = Some(d)
  /\ page_text_map' \in UNION {[1..n -> IndexPageTexts] : n \in 1..MaxPages}
  /\ structureReply' \in {None} \cup {Some(chunks) : chunks \in SeqsUpTo(IndexReplyChunks, MaxReplyChunks)}
  /\ resultChunks' = <<>> /\ pagePc' = "start"
  /\ UNCHANGED <<entries, collection, idxAdded, idxDone>>
  /\ UNCHANGED <<docVars, cacheVars, callVars, pipelineVars, wsVars, dedupVars, errVars, retryVars, isoVars, authVars>>

\* documents.py 54: document_processor.process_pdf(file_path)
index_structure ==
  /\ idxDocument # None
  /\ pages_structure

\* documents.py 87-100, vector_store.py 171-178: collection.add, no id of the
\* batch being a duplicate or already in the collection
index_add_ok ==
  /\ pagePc = "structured" /\ idxDocument # None
  /\ IdsDistinct(AddIds(resultChunks))
  /\ Range(AddIds(resultChunks)) \cap {e.id : e \in collection} = {}
  /\ collection' = collection \cup AddEntries(idxDocument[1], resultChunks)
  /\ entries' = AddEntries(idxDocument[1], resultChunks)
  /\ idxAdded' = idxAdded \cup AddedChunks(idxDocument[1], resultChunks)
  /\ idxDone' = idxDone \cup {idxDocument[1]}
  /\ idxDocument' = None /\ pagePc' = "indexed"
  /\ UNCHANGED <<page_text_map, structureReply, resultChunks>>
  /\ UNCHANGED <<docVars, cacheVars, callVars, pipelineVars, wsVars, dedupVars, errVars, retryVars, isoVars, authVars>>

\* documents.py 101-108, vector_store.py 171-176: collection.add raises on an id
\* that is repeated in the batch or, depending on the chromadb release, on an
\* id the collection already holds; the exception is logged and the document
\* stays Processed with none of its chunks indexed
index_add_raised ==
  /\ pagePc = "structured" /\ idxDocument # None
  /\ \/ ~IdsDistinct(AddIds(resultChunks))
     \/ Range(AddIds(resultChunks)) \cap {e.id : e \in collection} # {}
  /\ entries' = {}
  /\ idxAdded' = idxAdded \cup AddedChunks(idxDocument[1], resultChunks)
  /\ idxDone' = idxDone \cup {idxDocument[1]}
  /\ idxDocument' = None /\ pagePc' = "indexed"
  /\ UNCHANGED <<page_text_map, structureReply, resultChunks, collection>>
  /\ UNCHANGED <<docVars, cacheVars, callVars, pipelineVars, wsVars, dedupVars, errVars, retryVars, isoVars, authVars>>

\* vector_store.py 171-178: releases of chromadb that do not raise on an id the
\* collection already holds leave the existing entry and drop the new one
index_add_existing_ignored ==
  /\ pagePc = "structured" /\ idxDocument # None
  /\ IdsDistinct(AddIds(resultChunks))
  /\ Range(AddIds(resultChunks)) \cap {e.id : e \in collection} # {}
  /\ LET fresh == {e \in AddEntries(idxDocument[1], resultChunks) :
                     e.id \notin {x.id : x \in collection}}
     IN /\ collection' = collection \cup fresh
        /\ entries' = fresh
  /\ idxAdded' = idxAdded \cup AddedChunks(idxDocument[1], resultChunks)
  /\ idxDone' = idxDone \cup {idxDocument[1]}
  /\ idxDocument' = None /\ pagePc' = "indexed"
  /\ UNCHANGED <<page_text_map, structureReply, resultChunks>>
  /\ UNCHANGED <<docVars, cacheVars, callVars, pipelineVars, wsVars, dedupVars, errVars, retryVars, isoVars, authVars>>

InitIndex ==
  /\ WorkspaceIdle /\ TablesIdle /\ DedupIdle /\ ErrIdle /\ ExtIdle /\ cacheEnabled = TRUE /\ RagIdle /\ AskIdle
  /\ PageIdle

NextIndex ==
  \/ \E d \in IndexDocs : index_begin(d)
  \/ index_structure
  \/ index_add_ok
  \/ index_add_raised
  \/ index_add_existing_ignored

SpecIndex == InitIndex /\ [][NextIndex]_vars

\* C27: within one workspace collection no two indexed chunks have the same
\* id, whether they are chunks of one document or of two documents, and every
\* chunk handed to the collection is held by it under its own document once
\* the document's indexing has finished.
C27_ChunkIdsUnique ==
  /\ \A a, b \in idxAdded :
       a.chunk_id = b.chunk_id => (a.document_id = b.document_id /\ a.position = b.position)
  /\ \A a \in idxAdded :
       \E e \in collection : e.id = a.chunk_id /\ e.document_id = a.document_id

(***************************************************************************)
(* Specification: two workspaces, each with its collection, sharing the    *)
(* one cache (vector_store.py 43-58, 180-291, cache.py 102-124,            *)
(* documents.py 84-100, 363-396, workspaces.py 91-117)                     *)
(***************************************************************************)
Workspaces == {"w1", "w2"}
IsoDocs == {"d1", "d2"}
\* Document.workspace_id
WorkspaceOf(d) == IF d = "d1" THEN "w1" ELSE "w2"

IsoKeys == {EmbeddingKey}
           \cup {DocumentsKey(w) : w \in Workspaces}
           \cup {SearchKey(w, f) : w \in Workspaces, f \in Filters}
           \cup {DocumentScopedKey(d, WorkspaceOf(d)) : d \in IsoDocs}

\* vector_store.py 43-58: the collection workspace_{workspace_id}
get_or_create_collection(workspace_id) == collections[workspace_id]

\* vector_store.py 136-144: the metadata of an entry index_document_chunks adds
ChunkMetadata(workspace_id, document_id) ==
  [workspace_id |-> workspace_id, document_id |-> document_id]

\* vector_store.py 228-271: collection.query with where = filter_metadata, the
\* hits with their metadata
QueryWorkspace(workspace_id, f) ==
  {e \in get_or_create_collection(workspace_id) : f = "all" \/ e.document_id = f}

\* documents.py 84-100: the caches of the document's workspace are dropped and
\* its chunks are added to the workspace's collection
iso_index(d) ==
  /\ spc = "idle"
  /\ ChunkMetadata(WorkspaceOf(d), d) \notin collections[WorkspaceOf(d)]
  /\ cache' = InvalidateWorkspace(cacheEnabled, NoDowns, cache, WorkspaceOf(d))
  /\ collections' = [collections EXCEPT ![WorkspaceOf(d)] = @ \cup {ChunkMetadata(WorkspaceOf(d), d)}]
  /\ UNCHANGED <<sWorkspace, docVars, cacheEnabled, callVars, pipelineVars, wsVars,
                 dedupVars, errVars, pageVars, retryVars, indexVars, authVars>>

\* documents.py 386-393: vector_store.delete_document, cache_service.invalidate_document
iso_delete_document(d) ==
  /\ spc = "idle"
  /\ collections' = [collections EXCEPT ![WorkspaceOf(d)] = {e \in @ : e.document_id # d}]
  /\ cache' = InvalidateDocument(cacheEnabled, NoDowns, cache, d, WorkspaceOf(d))
  /\ UNCHANGED <<sWorkspace, docVars, cacheEnabled, callVars, pipelineVars, wsVars,
                 dedupVars, errVars, pageVars, retryVars, indexVars, authVars>>

\* workspaces.py 113-115, documents.py 199: cache_service.invalidate_workspace(w)
iso_invalidate_workspace(w) ==
  /\ spc = "idle"
  /\ cache' = InvalidateWorkspace(cacheEnabled, NoDowns, cache, w)
  /\ UNCHANGED <<isoVars, docVars, cacheEnabled, callVars, pipelineVars, wsVars,
                 dedupVars, errVars, pageVars, retryVars, indexVars, authVars>>

\* vector_store.py 203-219: build the key, cache_service.get; a hit is returned as is
iso_search_cache_get(w, f) ==
  /\ spc = "idle"
  /\ sWorkspace' = w
  /\ sFilter' = f
  /\ LET cached == CacheGet(cacheEnabled, FALSE, cache, SearchKey(w, f))
     IN IF cached # None
        THEN /\ spc' = "returned"
             /\ sRes' = cached[1]
             /\ sFromCache' = TRUE
        ELSE /\ spc' = "query"
             /\ UNCHANGED <<sRes, sFromCache>>
  /\ UNCHANGED <<collections, sVal, sFresh, sAfterDelete, row, file, vec, upc, wpc, wChunks, dpc,
                 unflushed, dRace, listVars, cacheVars, callVars, pipelineVars, wsVars,
                 dedupVars, errVars, pageVars, retryVars, indexVars, authVars>>

\* vector_store.py 221-271: embed the query, collection.query, format the hits
iso_search_query ==
  /\ spc = "query"
  /\ sVal' = QueryWorkspace(sWorkspace, sFilter)
  /\ spc' = "computed"
  /\ UNCHANGED <<isoVars, sFilter, sRes, sFromCache, sFresh, sAfterDelete, row, file, vec, upc, wpc,
                 wChunks, dpc, unflushed, dRace, listVars, cacheVars, callVars, pipelineVars, wsVars,
                 dedupVars, errVars, pageVars, retryVars, indexVars, authVars>>

\* vector_store.py 224-226: no query embedding: return [] (nothing cached)
iso_search_no_embedding ==
  /\ spc = "query"
  /\ spc' = "returned"
  /\ sRes' = {}
  /\ sFromCache' = FALSE
  /\ UNCHANGED <<isoVars, sFilter, sVal, sFresh, sAfterDelete, row, file, vec, upc, wpc,
                 wChunks, dpc, unflushed, dRace, listVars, cacheVars, callVars, pipelineVars, wsVars,
                 dedupVars, errVars, pageVars, retryVars, indexVars, authVars>>

\* vector_store.py 273-276: cache_service.set(cache_key, formatted_results); return
iso_search_cache_set ==
  /\ spc = "computed"
  /\ cache' = CacheSet(cacheEnabled, FALSE, cache, SearchKey(sWorkspace, sFilter), sVal)
  /\ spc' = "returned"
  /\ sRes' = sVal
  /\ sFromCache' = FALSE
  /\ UNCHANGED <<isoVars, sFilter, sVal, sFresh, sAfterDelete, row, file, vec, upc, wpc,
                 wChunks, dpc, unflushed, dRace, listVars, cacheEnabled, callVars, pipelineVars, wsVars,
                 dedupVars, errVars, pageVars, retryVars, indexVars, authVars>>

\* the caller takes the result; the next call may start
iso_search_done ==
  /\ spc = "returned"
  /\ spc' = "idle"
  /\ sFilter' = "all" /\ sVal' = {} /\ sRes' = {} /\ sFromCache' = FALSE
  /\ UNCHANGED <<isoVars, sFresh, sAfterDelete, row, file, vec, upc, wpc,
                 wChunks, dpc, unflushed, dRace, listVars, cacheVars, callVars, pipelineVars, wsVars,
                 dedupVars, errVars, pageVars, retryVars, indexVars, authVars>>

InitIsolation ==
  /\ WorkspaceIdle /\ RequestsIdle /\ DedupIdle /\ ErrIdle /\ PageIdle
  /\ RetryIdle /\ IndexIdle /\ AuthIdle /\ RagIdle /\ AskIdle
  /\ cacheEnabled \in BOOLEAN
  /\ cache = [k \in IsoKeys |-> None]
  /\ collections = [w \in Workspaces |-> {}]
  /\ sWorkspace = "w1"

NextIsolation ==
  \/ \E d \in IsoDocs : iso_index(d)
  \/ \E d \in IsoDocs : iso_delete_document(d)
  \/ \E w \in Workspaces : iso_invalidate_workspace(w)
  \/ \E w \in Workspaces, f \in Filters : iso_search_cache_get(w, f)
  \/ iso_search_query
  \/ iso_search_no_embedding
  \/ iso_search_cache_set
  \/ iso_search_done

SpecIsolation == InitIsolation /\ [][NextIsolation]_vars

\* the workspace a cache key belongs to, None for a key of no workspace
KeyWorkspace(k) ==
  CASE k[1] = "vector_search" -> Some(k[2])
    [] k[1] = "workspace" -> Some(k[2])
    [] k[1] = "document" -> Some(k[4])
    [] OTHER -> None

\* the invalidation leaves the entries of every workspace but w as they were
KeepsOtherWorkspaces(w) ==
  \A k \in DOMAIN cache :
    (KeyWorkspace(k) # None /\ KeyWorkspace(k) # Some(w)) => cache'[k] = cache[k]

\* C28: VectorStore.search for workspace w returns only hits whose metadata
\* workspace_id is w, from the collection or from the vector-search cache, and
\* invalidate_workspace(w) and invalidate_document(d, w) remove no cache entry
\* of another workspace.
C28_SearchIsolated ==
  /\ [](spc = "returned" => \A hit \in sRes : hit.workspace_id = sWorkspace)
  /\ [][/\ \A w \in Workspaces : iso_invalidate_workspace(w) => KeepsOtherWorkspaces(w)
        /\ \A d \in IsoDocs : iso_index(d) => KeepsOtherWorkspaces(WorkspaceOf(d))
        /\ \A d \in IsoDocs : iso_delete_document(d) => KeepsOtherWorkspaces(WorkspaceOf(d))]_vars

\* a search on w2 is answered from the cache while a result of w1 is cached
C28_Witness ==
  /\ spc = "returned" /\ sFromCache /\ sWorkspace = "w2" /\ sRes # {}
  /\ cache[SearchKey("w1", sFilter)] # None /\ cache[SearchKey("w1", sFilter)][1] # {}

(***************************************************************************)
(* Specification: requests by any caller to the endpoints on the           *)
(* documents, clauses, conversations and messages of the workspace         *)
(* (documents.py, clauses.py, conversations.py, exports.py as main.py      *)
(* 148-183 mounts them). Each request is one step: the checks the handler  *)
(* makes, then its writes.                                                 *)
(***************************************************************************)
Callers == {"anonymous", "u1", "u2"}
\* Workspace.user_id of the workspace; u2 owns another workspace
WorkspaceOwner == "u1"
MaxAuthMessages == 2
AuthDoc == "d1"

\* Depends(get_current_user): a request without a valid bearer token is
\* answered 401 before the handler runs
Authenticated(caller) == caller # "anonymous"

\* db.query(Workspace).filter(Workspace.id == ..., Workspace.user_id == current_user.id).first()
OwnsWorkspace(caller) == workspaceRow /\ caller = WorkspaceOwner

\* the rows, files, vector entries and messages of the workspace
authResources == <<row, file, vec, clauseRows, conversationRow, messages, conversationTitle>>

\* what no request of this specification touches
authRest == <<upc, wpc, wChunks, dpc, unflushed, dRace, searchVars, listVars, cacheEnabled,
              callVars, ragVars, apc, next_index, asks, workspaceRow, xpc,
              epc, eForce, eNew, eResp, eGen, eOld, eRace,
              dedupVars, errVars, pageVars, retryVars, indexVars, isoVars>>

Respond(endpoint, caller, status) ==
  /\ authEndpoint' = endpoint /\ authCaller' = caller /\ authStatus' = status
  /\ UNCHANGED authRest

\* raise HTTPException / NotFoundError before any write
Rejected(endpoint, caller, status) ==
  /\ Respond(endpoint, caller, status)
  /\ UNCHANGED <<authResources, cache>>

\* a handler with Depends(get_current_user) that looks its object up and then
\* verifies that the object's workspace belongs to the user (404 otherwise)
OwnerGuarded(endpoint, caller, found, status, Effect) ==
  IF ~Authenticated(caller) THEN Rejected(endpoint, caller, 401)
  ELSE IF ~found \/ ~OwnsWorkspace(caller) THEN Rejected(endpoint, caller, 404)
  ELSE Respond(endpoint, caller, status) /\ Effect

\* a handler that reads only
ReadOnly == UNCHANGED <<authResources, cache>>

\* the clause rows an extraction stores for the document
AuthClauseRows ==
  {Clause(<<1, 1>>, AuthDoc,
          [clause_type |-> "Termination", extracted_text |-> <<"t">>, page_number |-> 1,
           confidence_score |-> 1, risk_score |-> 0, risk_reasoning |-> <<>>])}

\* documents.py 136-225: upload_document
auth_upload_document(caller) ==
  OwnerGuarded("upload_document", caller, TRUE, 201,
    /\ ~RowExists(AuthDoc)
    /\ row' = [row EXCEPT ![AuthDoc] = "Uploaded"]
    /\ file' = [file EXCEPT ![AuthDoc] = TRUE]
    /\ cache' = CacheDelete(cacheEnabled, FALSE,
                            InvalidateWorkspace(cacheEnabled, NoDowns, cache, Workspace),
                            DocumentsKey(Workspace))
    /\ UNCHANGED <<vec, clauseRows, conversationRow, messages, conversationTitle>>)

\* documents.py 228-261: list_documents
auth_list_documents(caller) ==
  OwnerGuarded("list_documents", caller, TRUE, 200, ReadOnly)

\* documents.py 265-284: get_document
auth_get_document(caller) ==
  OwnerGuarded("get_document", caller, RowExists(AuthDoc), 200, ReadOnly)

\* documents.py 288-360: get_document_file; the token comes from the bearer
\* header or the query parameter, 401 without a user
auth_get_document_file(caller) ==
  OwnerGuarded("get_document_file", caller, RowExists(AuthDoc), 200,
    /\ file[AuthDoc]
    /\ ReadOnly)

\* documents.py 364-399: delete_document
auth_delete_document(caller) ==
  OwnerGuarded("delete_document", caller, RowExists(AuthDoc), 204,
    /\ file' = [file EXCEPT ![AuthDoc] = FALSE]
    /\ vec' = vec \ {AuthDoc}
    /\ cache' = InvalidateDocument(cacheEnabled, NoDowns, cache, AuthDoc, Workspace)
    /\ row' = [row EXCEPT ![AuthDoc] = NoRow]
    /\ clauseRows' = [clauseRows EXCEPT ![AuthDoc] = {}]
    /\ UNCHANGED <<conversationRow, messages, conversationTitle>>)

\* clauses.py 38-228: extract_clauses on a processed document
auth_extract_clauses(caller) ==
  OwnerGuarded("extract_clauses", caller, RowExists(AuthDoc), 200,
    /\ row[AuthDoc] = "Processed"
    /\ clauseRows' = [clauseRows EXCEPT ![AuthDoc] = IF @ # {} THEN @ ELSE AuthClauseRows]
    /\ cache' = CacheDelete(cacheEnabled, FALSE,
                            InvalidateDocument(cacheEnabled, NoDowns, cache, AuthDoc, Workspace),
                            DocumentScopedKey(AuthDoc, Workspace))
    /\ UNCHANGED <<row, file, vec, conversationRow, messages, conversationTitle>>)

\* clauses.py 235-336: list_clauses
auth_list_clauses(caller) ==
  OwnerGuarded("list_clauses", caller, RowExists(AuthDoc), 200, ReadOnly)

\* clauses.py 343-383: get_clause
auth_get_clause(caller) ==
  OwnerGuarded("get_clause", caller, clauseRows[AuthDoc] # {} /\ RowExists(AuthDoc), 200, ReadOnly)

\* clauses.py 387-413: delete_clause
auth_delete_clause(caller) ==
  OwnerGuarded("delete_clause", caller, clauseRows[AuthDoc] # {} /\ RowExists(AuthDoc), 204,
    /\ clauseRows' = [clauseRows EXCEPT ![AuthDoc] = {}]
    /\ UNCHANGED <<row, file, vec, conversationRow, messages, conversationTitle, cache>>)

\* conversations.py 35-77: create_conversation
auth_create_conversation(caller) ==
  OwnerGuarded("create_conversation", caller, TRUE, 201,
    /\ ~conversationRow
    /\ conversationRow' = TRUE
    /\ conversationTitle' = "t0"
    /\ UNCHANGED <<row, file, vec, clauseRows, messages, cache>>)

\* conversations.py 83-137: list_conversations
auth_list_conversations(caller) ==
  OwnerGuarded("list_conversations", caller, TRUE, 200, ReadOnly)

\* conversations.py 144-195: get_conversation
auth_get_conversation(caller) ==
  OwnerGuarded("get_conversation", caller, conversationRow, 200, ReadOnly)

\* conversations.py 202-336: ask_question stores the question and the answer
auth_ask_question(caller) ==
  OwnerGuarded("ask_question", caller, conversationRow, 200,
    /\ Len(messages) + 2 <= MaxAuthMessages
    /\ messages' = messages \o <<ConversationMessage(Len(messages), "user", "question"),
                                 ConversationMessage(Len(messages) + 1, "assistant", "answer")>>
    /\ UNCHANGED <<row, file, vec, clauseRows, conversationRow, conversationTitle, cache>>)

\* conversations.py 343-402: update_conversation
auth_update_conversation(caller) ==
  OwnerGuarded("update_conversation", caller, conversationRow, 200,
    /\ conversationTitle' = "t1"
    /\ UNCHANGED <<row, file, vec, clauseRows, conversationRow, messages, cache>>)

\* conversations.py 405-421: delete_conversation has neither
\* Depends(get_current_user) nor a workspace check; the messages go by cascade
auth_delete_conversation(caller) ==
  IF ~conversationRow THEN Rejected("delete_conversation", caller, 404)
  ELSE /\ Respond("delete_conversation", caller, 204)
       /\ conversationRow' = FALSE
       /\ messages' = <<>>
       /\ UNCHANGED <<row, file, vec, clauseRows, conversationTitle, cache>>

\* exports.py 28-116, 119-188: the evidence packs of a conversation
auth_download_evidence_pack(caller) ==
  OwnerGuarded("download_evidence_pack", caller, conversationRow, 200, ReadOnly)

\* exports.py 191-250, 253-306, 309-380: the exports of a document
auth_export_clauses(caller) ==
  OwnerGuarded("export_clauses", caller, RowExists(AuthDoc), 200, ReadOnly)

InitAuth ==
  /\ RequestsIdle /\ cache = [k \in Keys |-> None] /\ DedupIdle /\ ErrIdle /\ PageIdle
  /\ RetryIdle /\ IndexIdle /\ IsoIdle /\ RagIdle
  /\ cacheEnabled = TRUE
  /\ apc = [a \in Askers |-> "idle"] /\ next_index = [a \in Askers |-> 0] /\ asks = 0
  /\ messages = <<>>
  /\ workspaceRow = TRUE /\ conversationRow \in BOOLEAN /\ xpc = "idle"
  /\ clauseRows = [d \in Docs |-> {}]
  /\ epc = [d \in Docs |-> "idle"] /\ eForce = [d \in Docs |-> FALSE]
  /\ eNew = [d \in Docs |-> {}] /\ eResp = [d \in Docs |-> None] /\ eGen = 0
  /\ eOld = [d \in Docs |-> {}] /\ eRace = {}
  /\ AuthIdle

\* documents.py 32-131: the background task of an uploaded document finishes
auth_processed ==
  /\ row[AuthDoc] = "Uploaded"
  /\ row' = [row EXCEPT ![AuthDoc] = "Processed"]
  /\ vec' = vec \cup {AuthDoc}
  /\ cache' = InvalidateWorkspace(cacheEnabled, NoDowns, cache, Workspace)
  /\ UNCHANGED <<file, clauseRows, conversationRow, messages, authVars, authRest>>

\* a request by the caller to any of the endpoints
Request(caller) ==
  \/ auth_upload_document(caller)
  \/ auth_list_documents(caller)
  \/ auth_get_document(caller)
  \/ auth_get_document_file(caller)
  \/ auth_delete_document(caller)
  \/ auth_extract_clauses(caller)
  \/ auth_list_clauses(caller)
  \/ auth_get_clause(caller)
  \/ auth_delete_clause(caller)
  \/ auth_create_conversation(caller)
  \/ auth_list_conversations(caller)
  \/ auth_get_conversation(caller)
  \/ auth_ask_question(caller)
  \/ auth_update_conversation(caller)
  \/ auth_delete_conversation(caller)
  \/ auth_download_evidence_pack(caller)
  \/ auth_export_clauses(caller)

NextAuth ==
  \/ auth_processed
  \/ \E caller \in Callers : Request(caller)

SpecAuth == InitAuth /\ [][NextAuth]_vars

\* C21: a request to an endpoint on the workspace's documents, clauses,
\* conversations or messages by a caller who is not the authenticated owner of
\* the workspace is rejected and changes or deletes no row, file, vector entry
\* or message of the workspace.
C21_OwnerOnly ==
  [][\A caller \in Callers \ {WorkspaceOwner} :
       Request(caller) => (authStatus' \notin 200..299 /\ authResources' = authResources)]_vars
====
